---- MODULE Spec2Model ----
(***************************************************************************)
(* A model of dyana's dependency-aware step runner (dyana.errors.pipeline, *)
(* dyana.errors.guards, dyana.errors.reporter), of its constrained Viterbi *)
(* decoder (dyana.decode.constraints, dyana.decode.decoder), and of its    *)
(* evidence bundle and fusion, evaluation metrics, delta report, tune      *)
(* command, evaluation harness, file cache and IPU extraction.             *)
(*                                                                         *)
(* Log-scores are kept in half-units (every penalty of the source is a     *)
(* multiple of 0.5), so 2 * x is stored for the float x, and -inf is the   *)
(* value NegInf that absorbs addition.  The float sums of the decoder are  *)
(* exact on these values; float overflow is outside the model.             *)
(***************************************************************************)
EXTENDS Integers, Sequences, FiniteSets, TLC

VARIABLES
    \* ---- Pipeline / ErrorReporter ----
    cfg,        \* ErrorHandlingConfig: [mode, max_failures] (max_failures: <<>> is None, <<n>> is n)
    steps,      \* Pipeline._steps: name -> [deps]
    status,     \* ErrorReporter._status: name -> "none" | "ok" | "failed" | "skipped"
    records,    \* ErrorReporter._records: sequence of [step_name, status, caused_by]
    results,    \* run(): results dict, name -> returned value
    remaining,  \* run(): remaining
    decided,    \* run(): executed_or_decided
    progressed, \* run(): progressed
    todo,       \* run(): the part of sorted(list(remaining)) the for loop has not visited yet
    ran,        \* history: the step functions invoked, in order (the tests' `ran` list)
    pc,         \* "idle" | "while" | "for" | "returned" | "raised_step" | "raised_noprogress"
    \* ---- decode_with_constraints / viterbi_decode ----
    dcfg,       \* the call's keyword arguments: [min_durations, tuning, initial], <<>> is None
    scores,     \* log_scores, the rows read so far (row t is read by iteration t only)
    base_trans, \* base_trans: the base transition matrix of the call
    xstates,    \* expanded_states: sequence of <<base, sub_idx>>
    xtrans,     \* expanded_trans
    xinit,      \* init_expanded
    dp,         \* viterbi_decode: dp rows
    bp,         \* viterbi_decode: bp rows (0 stands for the -1 of row 0)
    path_idx,   \* viterbi_decode: path, expanded indices counted from 1
    path_score, \* viterbi_decode: path_score, <<>> before the return
    path,       \* decode_with_constraints: the returned base-state names
    dpc,        \* "idle" | "first" | "loop" | "done"
    \* ---- EvidenceBundle / fuse_bundle_to_scores ----
    bundle,     \* the bundle: [timebase, require_canonical, tracks], <<>> before construction
    bundle_op,  \* the last bundle operation: [op, raised, before], <<>> before any
    fused,      \* fuse_bundle_to_scores: <<>>, [raised |-> TRUE] or [raised |-> FALSE, T, prior_a, prior_b]
    \* ---- boundary_f1 ----
    f1_args,    \* [ref, hyp, tol]: boundary times and tolerance in milliseconds
    f1_loop,    \* the for loop: [k, ref_used, tp, matched], matched[j] is the reference
                \* index taken by the j-th hypothesis, 0 if none; <<>> outside a call
    f1_ret,     \* the returned dict, <<>> before the call
    \* ---- compute_delta_report ----
    delta_args, \* [baseline, current]: the result rows of the two scorecards
    report,     \* the returned report, <<>> before the call
    \* ---- dyana tune ----
    tune_args,  \* [grid, regress]: --grid, and for each candidate whether its rows regress
    tune_index, \* the candidates the for loop has finished
    written,    \* the files written, a set of <<candidate index, file name>>
    first_failure, \* run(): first_failure, <<>> is None
    tune_pc,    \* "idle" | "loop" | "returned" | "raised"
    \* ---- evaluate_manifest / evaluate_item ----
    manifest,   \* sorted_manifest: sequence of [id, fails], fails names the step that raises
    h_status,   \* the shared ErrorReporter._status: step name -> status
    h_item,     \* index of the item being evaluated
    h_remaining, \* Pipeline.run of the item: remaining
    h_decided,  \* Pipeline.run of the item: executed_or_decided
    h_results,  \* Pipeline.run of the item: results (the names of the steps that returned)
    h_todo,     \* Pipeline.run of the item: the rest of the for loop's sorted list
    h_progressed, \* Pipeline.run of the item: progressed
    h_ran,      \* history: <<item index, step>> for every step function invoked
    h_rows,     \* evaluate_manifest: results
    h_pc,       \* "idle" | "items" | "while" | "for" | "returned" | "raised"
    \* ---- cache_get / cache_put ----
    cache_file, \* the file <key>.npz of the cache directory: "absent" | "partial" | "complete"
    cache_pc,   \* per evaluation: "start" | "writing" | "done"
    cache_got,  \* per evaluation: what its cache_get saw, "none" before it returned
    \* ---- extract_ipus ----
    ipu_args,   \* [states, target_label, min_frames]
    segments,   \* the returned list of [start_time, end_time, label], <<>> before the call
    \* ---- upsample_hold_last / downsample ----
    rs_args,    \* [x, coarse, fine, agg]: the array, the two hops and the aggregation
    rs_up,      \* what upsample_hold_last returned: <<>> before, [raised] or [raised, values]
    rs_out,     \* what downsample returned: <<>> before, [raised] or [raised, values]
    \* ---- run_pipeline ----
    rp_args,    \* [half_hops, content]: the audio length in half hops and its loudness per frame
    rp_tracks,  \* the five evidence tracks in the order they are added: [name, n_frames, values]
    rp_rows,    \* what fuse_bundle_to_scores returned: one score row per frame
    rp_ipus,    \* the segments extracted for A, B, OVL and LEAK, concatenated
    rp_pc       \* "idle" | "bundle" | "fuse" | "decode" | "done" | "raised"

pipeVars == <<cfg, steps, status, records, results, remaining, decided, progressed, todo, ran, pc>>

decVars == <<dcfg, scores, base_trans, xstates, xtrans, xinit, dp, bp, path_idx, path_score, path, dpc>>

fusionVars == <<bundle, bundle_op, fused>>

f1Vars == <<f1_args, f1_loop, f1_ret>>

deltaVars == <<delta_args, report>>

tuneVars == <<tune_args, tune_index, written, first_failure, tune_pc>>

harnessVars == <<manifest, h_status, h_item, h_remaining, h_decided, h_results, h_todo,
                 h_progressed, h_ran, h_rows, h_pc>>

cacheVars == <<cache_file, cache_pc, cache_got>>

ipuVars == <<ipu_args, segments>>

resampleVars == <<rs_args, rs_up, rs_out>>

runVars == <<rp_args, rp_tracks, rp_rows, rp_ipus, rp_pc>>

vars == <<pipeVars, decVars, fusionVars, f1Vars, deltaVars, tuneVars, harnessVars, cacheVars, ipuVars,
          resampleVars, runVars>>

\* What the actions of one component leave alone: the variables of all the others.
outsidePipe == <<decVars, fusionVars, f1Vars, deltaVars, tuneVars, harnessVars, cacheVars, ipuVars,
    resampleVars, runVars>>

outsideDecode == <<pipeVars, fusionVars, f1Vars, deltaVars, tuneVars, harnessVars, cacheVars, ipuVars,
    resampleVars, runVars>>

outsideFusion == <<pipeVars, decVars, f1Vars, deltaVars, tuneVars, harnessVars, cacheVars, ipuVars,
    resampleVars, runVars>>

outsideF1 == <<pipeVars, decVars, fusionVars, deltaVars, tuneVars, harnessVars, cacheVars, ipuVars,
    resampleVars, runVars>>

outsideDelta == <<pipeVars, decVars, fusionVars, f1Vars, tuneVars, harnessVars, cacheVars, ipuVars,
    resampleVars, runVars>>

outsideTune == <<pipeVars, decVars, fusionVars, f1Vars, deltaVars, harnessVars, cacheVars, ipuVars,
    resampleVars, runVars>>

outsideHarness == <<pipeVars, decVars, fusionVars, f1Vars, deltaVars, tuneVars, cacheVars, ipuVars,
    resampleVars, runVars>>

outsideCache == <<pipeVars, decVars, fusionVars, f1Vars, deltaVars, tuneVars, harnessVars, ipuVars,
    resampleVars, runVars>>

outsideResample ==
    <<pipeVars, decVars, fusionVars, f1Vars, deltaVars, tuneVars, harnessVars, cacheVars, ipuVars,
      runVars>>

outsideRun ==
    <<pipeVars, decVars, fusionVars, f1Vars, deltaVars, tuneVars, harnessVars, cacheVars, ipuVars,
      resampleVars>>

outsideIpu == <<pipeVars, decVars, fusionVars, f1Vars, deltaVars, tuneVars, harnessVars, cacheVars,
    resampleVars, runVars>>

\* The components that are not in use hold these values.
FusionIdle == bundle = <<>> /\ bundle_op = <<>> /\ fused = <<>>

F1Idle == f1_args = <<>> /\ f1_loop = <<>> /\ f1_ret = <<>>

DeltaIdle == delta_args = <<>> /\ report = <<>>

TuneIdle ==
    /\ tune_args = <<>>
    /\ tune_index = 0
    /\ written = {}
    /\ first_failure = <<>>
    /\ tune_pc = "idle"

HarnessIdle ==
    /\ manifest = <<>>
    /\ h_status = <<>>
    /\ h_item = 0
    /\ h_remaining = {}
    /\ h_decided = {}
    /\ h_results = {}
    /\ h_todo = <<>>
    /\ h_progressed = FALSE
    /\ h_ran = <<>>
    /\ h_rows = <<>>
    /\ h_pc = "idle"

CacheIdle == cache_file = "absent" /\ cache_pc = <<>> /\ cache_got = <<>>

IpuIdle == ipu_args = <<>> /\ segments = <<>>

ResampleIdle == rs_args = <<>> /\ rs_up = <<>> /\ rs_out = <<>>

RunIdle ==
    /\ rp_args = <<>> /\ rp_tracks = <<>> /\ rp_rows = <<>> /\ rp_ipus = <<>>
    /\ rp_pc = "idle"

(***************************************************************************)
(*                              Bounds                                     *)
(***************************************************************************)
\* Total number of dependency entries over all registered steps.
MaxEdges == 3
\* Largest max_failures value a configuration carries.
MaxFailuresCap == 2
\* Largest number of frames T of a decoded score array.
MaxT == 4
\* Largest number of frames where every state sequence is enumerated.
MaxViterbiT == 3
\* The margin, in half-units, by which a score row favours its states.
Margin == 12
\* Largest number of frames of an evidence track or a bundle timebase.
MaxFrames == 3
\* Largest number of boundaries of a reference or hypothesis list.
MaxBoundaries == 2

\* The longest manifest.
MaxItems == 2

\* The evaluations that share one cache directory.
NumEvaluations == 3

\* The longest state sequence given to extract_ipus.
MaxIpuFrames == 4

\* The precision, in bits, of the floats of the resampled arrays, and the number of
\* binades above the lowest.
FloatBits == 3

FloatExps == 2

\* The longest resampled array and the largest resampling factor.
MaxResampleLen == 2

MaxFactor == 3

\* The longest audio given to run_pipeline, in half hops of 5 ms.
MaxAudioHalfHops == 21

(***************************************************************************)
(*                      Pipeline: steps and reporter                       *)
(***************************************************************************)
\* The step names a pipeline may register or name as a dependency, in sorted() order.
StepNames == <<"A", "B", "C">>

Names == {StepNames[i] : i \in 1..Len(StepNames)}

\* What the step function of each name returns when it does not raise.
FnReturn(name) == CHOOSE i \in 1..Len(StepNames) : StepNames[i] = name

\* sorted(S) for a set of step names.
Sorted(S) == SelectSeq(StepNames, LAMBDA n : n \in S)

Modes == {"run", "debug"}

Configs == [mode : Modes, max_failures : {<<>>} \cup {<<n>> : n \in 0..MaxFailuresCap}]

DepSeqs(k) == UNION {[1..m -> Names] : m \in 0..k}

RECURSIVE SumLen(_, _)
SumLen(f, S) ==
    IF S = {} THEN 0
    ELSE LET n == CHOOSE x \in S : TRUE IN Len(f[n].deps) + SumLen(f, S \ {n})

EdgeCount == SumLen(steps, DOMAIN steps)

\* ErrorReporter.ok
ReporterOk(name) == status[name] = "ok"

\* ErrorReporter.failures_count
FailuresCount == Cardinality({n \in Names : status[n] = "failed"})

\* ErrorReporter.mark_skipped, one record
SkipRecord(name, cause) == [step_name |-> name, status |-> "skipped", caused_by |-> cause]

\* FailureRecord.from_exception
FailRecord(name) == [step_name |-> name, status |-> "failed", caused_by |-> "none"]

\* No decoder call is in progress.
DecodeIdle ==
    /\ dcfg = <<>>
    /\ scores = <<>>
    /\ base_trans = <<>>
    /\ xstates = <<>>
    /\ xtrans = <<>>
    /\ xinit = <<>>
    /\ dp = <<>>
    /\ bp = <<>>
    /\ path_idx = <<>>
    /\ path_score = <<>>
    /\ path = <<>>
    /\ dpc = "idle"

InitPipe ==
    /\ DecodeIdle
    /\ FusionIdle /\ F1Idle /\ DeltaIdle /\ TuneIdle /\ HarnessIdle /\ CacheIdle /\ IpuIdle /\ ResampleIdle /\ RunIdle
    /\ cfg \in Configs
    /\ steps = <<>>
    /\ status = [n \in Names |-> "none"]
    /\ records = <<>>
    /\ results = <<>>
    /\ remaining = {}
    /\ decided = {}
    /\ progressed = FALSE
    /\ todo = <<>>
    /\ ran = <<>>
    /\ pc = "idle"

\* Pipeline.add: a duplicate name raises ValueError and registers nothing.
Add(name, deps) ==
    /\ pc = "idle"
    /\ name \notin DOMAIN steps
    /\ EdgeCount + Len(deps) <= MaxEdges
    /\ steps' = [n \in DOMAIN steps \cup {name} |->
                    IF n = name THEN [deps |-> deps] ELSE steps[n]]
    /\ UNCHANGED <<cfg, status, records, results, remaining, decided, progressed, todo, ran, pc>>
    /\ UNCHANGED outsidePipe

\* Pipeline.run, entry: results, remaining, executed_or_decided.
RunStart ==
    /\ pc = "idle"
    /\ results' = <<>>
    /\ remaining' = DOMAIN steps
    /\ decided' = {}
    /\ pc' = "while"
    /\ UNCHANGED <<cfg, steps, status, records, progressed, todo, ran>>
    /\ UNCHANGED outsidePipe

\* Mutant of CutoffReached: an unset max_failures is taken as a limit of one failure.
CutoffReached_NoneIsOne ==
    /\ cfg.mode = "run"
    /\ FailuresCount >= (IF cfg.max_failures = <<>> THEN 1 ELSE cfg.max_failures[1])

\* pipeline.py:100-101, the max_failures cutoff ("run mode only").
CutoffReached ==
    /\ cfg.mode = "run"
    /\ cfg.max_failures # <<>>
    /\ FailuresCount >= cfg.max_failures[1]

\* pipeline.py:103-105: mark_skipped(name, caused_by="max_failures") for every name of
\* sorted(remaining) that has no status yet.
CutoffRecords ==
    LET pending == Sorted({n \in remaining : status[n] = "none"})
    IN  [i \in 1..Len(pending) |-> SkipRecord(pending[i], "max_failures")]

\* while remaining: (the loop condition is false)
WhileExit ==
    /\ pc = "while"
    /\ remaining = {}
    /\ pc' = "returned"
    /\ UNCHANGED <<cfg, steps, status, records, results, remaining, decided, progressed, todo, ran>>
    /\ UNCHANGED outsidePipe

\* The cutoff branch of the loop head: skip what is pending, break, return results.
WhileCutoff ==
    /\ pc = "while"
    /\ remaining # {}
    /\ CutoffReached
    /\ progressed' = FALSE
    /\ records' = records \o CutoffRecords
    /\ status' = [n \in Names |->
                    IF n \in remaining /\ status[n] = "none" THEN "skipped" ELSE status[n]]
    /\ pc' = "returned"
    /\ UNCHANGED <<cfg, steps, results, remaining, decided, todo, ran>>
    /\ UNCHANGED outsidePipe

\* The loop head otherwise: progressed = False, then for name in sorted(list(remaining)).
WhilePass ==
    /\ pc = "while"
    /\ remaining # {}
    /\ ~CutoffReached
    /\ progressed' = FALSE
    /\ todo' = Sorted(remaining)
    /\ pc' = "for"
    /\ UNCHANGED <<cfg, steps, status, records, results, remaining, decided, ran>>
    /\ UNCHANGED outsidePipe

\* Mutant of DepsDecided: the "not decided yet" test is dropped.
DepsDecided_Always(deps) == TRUE

\* pipeline.py:112: any(dep not in executed_or_decided for dep in sdef.deps) is false.
DepsDecided(deps) == \A i \in 1..Len(deps) : deps[i] \in decided

\* pipeline.py:116: next((dep for dep in deps if not reporter.ok(dep)), None), as the
\* position of that dependency in deps, 0 for None.
RECURSIVE FirstBadFrom(_, _)
FirstBadFrom(deps, i) ==
    IF i > Len(deps) THEN 0
    ELSE IF ~ReporterOk(deps[i]) THEN i
    ELSE FirstBadFrom(deps, i + 1)

\* Mutant of FirstBad: the last dependency that is not OK instead of the first.
FirstBad_Last(deps) ==
    LET bad == {i \in 1..Len(deps) : ~ReporterOk(deps[i])}
    IN  IF bad = {} THEN 0 ELSE CHOOSE i \in bad : \A j \in bad : j <= i

FirstBad(deps) == FirstBadFrom(deps, 1)

\* Mutant of ReRaises: the exception is suppressed in every mode.
ReRaises_Never == FALSE

\* guards.py:35-36: step() re-raises what the step function raised.
ReRaises == cfg.mode = "debug"

\* The bookkeeping after a step is decided (pipeline.py:119-121 and 129-131).
Decide(name) ==
    /\ remaining' = remaining \ {name}
    /\ decided' = decided \cup {name}
    /\ progressed' = TRUE
    /\ todo' = Tail(todo)

\* for body, pipeline.py:112-113: a dependency is not decided yet.
ForContinue ==
    /\ pc = "for"
    /\ todo # <<>>
    /\ ~DepsDecided(steps[Head(todo)].deps)
    /\ todo' = Tail(todo)
    /\ UNCHANGED <<cfg, steps, status, records, results, remaining, decided, progressed, ran, pc>>
    /\ UNCHANGED outsidePipe

\* for body, pipeline.py:116-122: a dependency is not OK.
ForSkip ==
    /\ pc = "for"
    /\ todo # <<>>
    /\ LET name == Head(todo)
           deps == steps[name].deps
       IN  /\ DepsDecided(deps)
           /\ FirstBad(deps) # 0
           /\ status' = [status EXCEPT ![name] = "skipped"]
           /\ records' = Append(records, SkipRecord(name, deps[FirstBad(deps)]))
           /\ Decide(name)
    /\ UNCHANGED <<cfg, steps, results, ran, pc>>
    /\ UNCHANGED outsidePipe

\* Mutant of StoreResult: the returned value is dropped.
StoreResult_Dropped(res, name, out) == res

\* pipeline.py:127: results[name] = out
StoreResult(res, name, out) ==
    [n \in DOMAIN res \cup {name} |-> IF n = name THEN out ELSE res[n]]

\* for body, pipeline.py:125-131: the step function returns; step() marks it OK.
ForRunOk ==
    /\ pc = "for"
    /\ todo # <<>>
    /\ LET name == Head(todo)
           deps == steps[name].deps
       IN  /\ DepsDecided(deps)
           /\ FirstBad(deps) = 0
           /\ ran' = Append(ran, name)
           /\ results' = StoreResult(results, name, FnReturn(name))
           /\ status' = [status EXCEPT ![name] = "ok"]
           /\ Decide(name)
    /\ UNCHANGED <<cfg, steps, records, pc>>
    /\ UNCHANGED outsidePipe

\* for body, pipeline.py:125-131 with guards.py:33-36: the step function raises;
\* step() marks it FAILED, then re-raises (debug) or suppresses (run).
ForRunRaise ==
    /\ pc = "for"
    /\ todo # <<>>
    /\ LET name == Head(todo)
           deps == steps[name].deps
       IN  /\ DepsDecided(deps)
           /\ FirstBad(deps) = 0
           /\ ran' = Append(ran, name)
           /\ status' = [status EXCEPT ![name] = "failed"]
           /\ records' = Append(records, FailRecord(name))
           /\ IF ReRaises
              THEN /\ pc' = "raised_step"
                   /\ UNCHANGED <<remaining, decided, progressed, todo>>
              ELSE /\ pc' = pc
                   /\ Decide(name)
    /\ UNCHANGED <<cfg, steps, results>>
    /\ UNCHANGED outsidePipe

\* Mutant of NoProgress: the no-progress test never fires.
NoProgress_Never == FALSE

\* pipeline.py:133: if not progressed
NoProgress == ~progressed

\* The for loop is over and the pass decided something: back to the loop head.
ForEnd ==
    /\ pc = "for"
    /\ todo = <<>>
    /\ ~NoProgress
    /\ pc' = "while"
    /\ UNCHANGED <<cfg, steps, status, records, results, remaining, decided, progressed, todo, ran>>
    /\ UNCHANGED outsidePipe

\* pipeline.py:133-139: RuntimeError("Pipeline could not make progress ...").
ForNoProgress ==
    /\ pc = "for"
    /\ todo = <<>>
    /\ NoProgress
    /\ pc' = "raised_noprogress"
    /\ UNCHANGED <<cfg, steps, status, records, results, remaining, decided, progressed, todo, ran>>
    /\ UNCHANGED outsidePipe

NextPipe ==
    \/ \E name \in Names, deps \in DepSeqs(MaxEdges) : Add(name, deps)
    \/ RunStart
    \/ WhileExit
    \/ WhileCutoff
    \/ WhilePass
    \/ ForContinue
    \/ ForSkip
    \/ ForRunOk
    \/ ForRunRaise
    \/ ForEnd
    \/ ForNoProgress

SpecPipe == InitPipe /\ [][NextPipe]_vars

(***************************************************************************)
(*                    Properties of the step runner                        *)
(***************************************************************************)
RanSet == {ran[i] : i \in 1..Len(ran)}

DepSet(name) == {steps[name].deps[i] : i \in 1..Len(steps[name].deps)}

\* The caused_by values of the skip records written for a step.
CausedBy(name) ==
    {records[i].caused_by : i \in {k \in 1..Len(records) :
        records[k].step_name = name /\ records[k].status = "skipped"}}

NotOkDeps(name) ==
    {i \in 1..Len(steps[name].deps) : status[steps[name].deps[i]] \in {"failed", "skipped"}}

\* The first dependency, in declaration order, that is FAILED or SKIPPED.
FirstNotOkDep(name) ==
    steps[name].deps[CHOOSE i \in NotOkDeps(name) : \A j \in NotOkDeps(name) : i <= j]

\* The registered steps hold a dependency cycle or a dependency that was never added:
\* some non-empty set of steps each waits for a member of the set or for an unknown name.
Malformed ==
    \E S \in SUBSET (DOMAIN steps) :
        /\ S # {}
        /\ \A n \in S : \E d \in DepSet(n) : d \in S \/ d \notin DOMAIN steps

RECURSIVE DepClosure(_)
DepClosure(S) ==
    LET nxt == S \cup UNION {DepSet(n) : n \in S \cap DOMAIN steps}
    IN  IF nxt = S THEN S ELSE DepClosure(nxt)

\* Every step a step depends on, directly or through other steps.
TransDeps(name) == DepClosure(DepSet(name))

\* C1 (as amended): in run mode a step function is invoked only when every declared
\* dependency is OK; when run() returns, a step with a FAILED or SKIPPED dependency
\* is SKIPPED and was never executed, and its skip record names the first such
\* dependency in declaration order, or "max_failures" when the step was still
\* pending at the max_failures cutoff.
C1_SkipNamesFirstBadDepOrCutoff ==
    cfg.mode = "run" =>
        /\ \A n \in RanSet : \A d \in DepSet(n) : status[d] = "ok"
        /\ \A n \in DOMAIN steps : \A c \in CausedBy(n) :
              \/ c = "max_failures" /\ CutoffReached
              \/ NotOkDeps(n) # {} /\ c = FirstNotOkDep(n)
        /\ pc = "returned" =>
              \A n \in DOMAIN steps :
                  NotOkDeps(n) # {} =>
                      /\ status[n] = "skipped"
                      /\ n \notin RanSet
                      /\ Cardinality(CausedBy(n)) = 1

\* C1 as stated, on step graphs without cycle or undefined dependency: the skip record
\* of a step with a FAILED or SKIPPED dependency always names the first such dependency.
C1_SkipAlwaysNamesFirstBadDep ==
    (cfg.mode = "run" /\ pc = "returned" /\ ~Malformed) =>
        \A n \in DOMAIN steps :
            NotOkDeps(n) # {} =>
                /\ status[n] = "skipped"
                /\ n \notin RanSet
                /\ CausedBy(n) = {FirstNotOkDep(n)}

\* A step with two distinct dependencies, neither OK, skipped for the first of them.
C1_Witness ==
    /\ cfg.mode = "run"
    /\ pc = "returned"
    /\ \E n \in DOMAIN steps :
          /\ Len(steps[n].deps) = 2
          /\ steps[n].deps[1] # steps[n].deps[2]
          /\ NotOkDeps(n) = {1, 2}
          /\ status[n] = "skipped"
          /\ CausedBy(n) = {steps[n].deps[1]}

\* C2: in run mode with max_failures = N, no step function is executed once N steps
\* have FAILED, and on return every step that was pending is SKIPPED with caused_by
\* "max_failures".
C2_NoExecutionAfterCutoff ==
    (cfg.mode = "run" /\ cfg.max_failures # <<>>) =>
        /\ \A i \in 1..Len(ran) :
              Cardinality({j \in 1..(i - 1) : status[ran[j]] = "failed"}) < cfg.max_failures[1]
        /\ (pc = "returned" /\ FailuresCount >= cfg.max_failures[1]) =>
              \A n \in DOMAIN steps \ RanSet :
                  status[n] = "skipped" /\ "max_failures" \in CausedBy(n)

\* C3: in debug mode the first step function that raises is recorded FAILED and the
\* exception leaves run() at once: no later step is executed or given a status.
C3_DebugStopsAtFirstFailure ==
    cfg.mode = "debug" =>
        /\ FailuresCount >= 1 => pc = "raised_step"
        /\ pc = "raised_step" =>
              /\ FailuresCount = 1
              /\ status[ran[Len(ran)]] = "failed"
              /\ \A n \in remaining \ {ran[Len(ran)]} : status[n] = "none" /\ n \notin RanSet
              /\ ~ENABLED NextPipe

\* A debug run that raised after executing a step, with a step still pending.
C3_Witness ==
    /\ cfg.mode = "debug"
    /\ pc = "raised_step"
    /\ Len(ran) >= 2
    /\ \E n \in remaining : n # ran[Len(ran)]

\* The run ended: it returned or it raised.
Ended == pc \in {"returned", "raised_step", "raised_noprogress"}

\* C4 (as amended): in run mode, a step graph with a cycle or an undefined dependency
\* makes run() raise RuntimeError, unless the max_failures cutoff is reached first, in
\* which case run() returns normally with the pending steps SKIPPED.
C4_MalformedRaisesUnlessCutoff ==
    (cfg.mode = "run" /\ Malformed /\ Ended) =>
        \/ pc = "raised_noprogress"
        \/ pc = "returned" /\ CutoffReached /\ remaining # {}

\* C4 as stated: whatever the max_failures setting, run() never returns normally on
\* such a graph.
C4_MalformedAlwaysRaises ==
    (cfg.mode = "run" /\ Malformed /\ Ended) => pc = "raised_noprogress"

\* run() raised "could not make progress" on a cyclic graph after other steps were
\* executed, one of them failing, with max_failures set but not reached.
C4_Witness ==
    /\ cfg.mode = "run"
    /\ cfg.max_failures # <<>>
    /\ Malformed
    /\ pc = "raised_noprogress"
    /\ FailuresCount >= 1
    /\ \E n \in RanSet : status[n] = "ok"

\* C5: in run mode without max_failures, on an acyclic graph with every dependency
\* defined, run() returns and has executed every step whose transitive dependencies
\* all ended OK, whatever other steps failed.
C5_IndependentWorkRuns ==
    (cfg.mode = "run" /\ cfg.max_failures = <<>> /\ ~Malformed) =>
        /\ pc # "raised_noprogress"
        /\ pc = "returned" =>
              \A n \in DOMAIN steps :
                  (\A d \in TransDeps(n) : status[d] = "ok") => n \in RanSet

\* A failed, its dependent B skipped, the independent C executed and OK.
C5_Witness ==
    /\ cfg.mode = "run"
    /\ cfg.max_failures = <<>>
    /\ pc = "returned"
    /\ DOMAIN steps = {"A", "B", "C"}
    /\ steps["B"].deps = <<"A">>
    /\ steps["A"].deps = <<>> /\ steps["C"].deps = <<>>
    /\ status = [n \in Names |-> IF n = "A" THEN "failed" ELSE IF n = "B" THEN "skipped" ELSE "ok"]
    /\ ran = <<"A", "C">>

(***************************************************************************)
(*          Decoder: state space, constraints, constrained Viterbi         *)
(***************************************************************************)
\* Mutant of STATE_NAMES: B is indexed before A.
STATE_NAMES_BFirst == <<"SIL", "B", "A", "OVL", "LEAK">>

\* state_space.STATE_NAMES
STATE_NAMES == <<"SIL", "A", "B", "OVL", "LEAK">>

StateSet == {STATE_NAMES[i] : i \in 1..Len(STATE_NAMES)}

\* -np.inf
NegInf == -1000000

\* Float addition on the modelled values: -inf absorbs.
Plus(x, y) == IF x = NegInf \/ y = NegInf THEN NegInf ELSE x + y

\* constraints.py, default penalties, in half-units (2 * the float of the source).
STAY_REWARD == 0
GENERIC_SWITCH_PENALTY == -6
SPEAKER_SWITCH_PENALTY == -12
SIL_EXIT_PENALTY == -2
SIL_ENTER_PENALTY == -1
LEAK_FORBID == NegInf
LEAK_ENTER_PENALTY == -4
LEAK_EXIT_TO_SIL_PENALTY == -1
\* Mutant of LEAK_TO_AB_FORBID: LEAK -> A/B is left at the generic switch penalty.
LEAK_TO_AB_Generic == GENERIC_SWITCH_PENALTY
LEAK_TO_AB_FORBID == NegInf
LEAK_TO_OVL_PENALTY == -10

\* constraints.py, default minimum durations (frames).
MIN_IPU_FRAMES == 3
MIN_SIL_FRAMES == 2

\* The DecodeTuningParams that base_transition_matrix builds when it is given none.
DefaultTuning ==
    [speaker_switch_penalty |-> SPEAKER_SWITCH_PENALTY,
     leak_entry_bias |-> LEAK_ENTER_PENALTY,
     ovl_transition_cost |-> GENERIC_SWITCH_PENALTY]

\* Mutant of BaseTransitionMatrix: the SIL exit and enter penalties change places.
BaseTransitionMatrix_Swapped(tuning) ==
    LET params == IF tuning = <<>> THEN DefaultTuning ELSE tuning[1]
        m0 == [i \in StateSet |-> [j \in StateSet |->
                  IF i = j THEN STAY_REWARD ELSE GENERIC_SWITCH_PENALTY]]
        m1 == [m0 EXCEPT !["A"]["B"] = params.speaker_switch_penalty,
                         !["B"]["A"] = params.speaker_switch_penalty,
                         !["SIL"]["LEAK"] = LEAK_FORBID]
        m2 == [i \in StateSet |-> [j \in StateSet |->
                  IF \/ i = "OVL" /\ j \in {"SIL", "A", "B"}
                     \/ j = "OVL" /\ i \in {"SIL", "A", "B"}
                  THEN params.ovl_transition_cost
                  ELSE IF j = "LEAK" /\ i \in {"A", "B", "OVL"} THEN params.leak_entry_bias
                  ELSE m1[i][j]]]
        m3 == [m2 EXCEPT !["LEAK"]["SIL"] = LEAK_EXIT_TO_SIL_PENALTY,
                         !["LEAK"]["A"] = LEAK_TO_AB_FORBID,
                         !["LEAK"]["B"] = LEAK_TO_AB_FORBID,
                         !["LEAK"]["OVL"] = LEAK_TO_OVL_PENALTY]
        m4 == [i \in StateSet |-> [j \in StateSet |->
                  IF i = "SIL" THEN Plus(m3[i][j], SIL_ENTER_PENALTY) ELSE m3[i][j]]]
        m5 == [i \in StateSet |-> [j \in StateSet |->
                  IF j = "SIL" THEN Plus(m4[i][j], SIL_EXIT_PENALTY) ELSE m4[i][j]]]
    IN  [m5 EXCEPT !["SIL"]["SIL"] = STAY_REWARD,
                   !["SIL"]["LEAK"] = LEAK_FORBID,
                   !["LEAK"]["A"] = LEAK_TO_AB_FORBID,
                   !["LEAK"]["B"] = LEAK_TO_AB_FORBID]

\* constraints.base_transition_matrix(states=STATE_NAMES, tuning_params): the statements
\* of the source in their order, m0 (lines 45-48) to the result (lines 77-80).
BaseTransitionMatrix(tuning) ==
    LET params == IF tuning = <<>> THEN DefaultTuning ELSE tuning[1]
        m0 == [i \in StateSet |-> [j \in StateSet |->
                  IF i = j THEN STAY_REWARD ELSE GENERIC_SWITCH_PENALTY]]
        m1 == [m0 EXCEPT !["A"]["B"] = params.speaker_switch_penalty,
                         !["B"]["A"] = params.speaker_switch_penalty,
                         !["SIL"]["LEAK"] = LEAK_FORBID]
        m2 == [i \in StateSet |-> [j \in StateSet |->
                  IF \/ i = "OVL" /\ j \in {"SIL", "A", "B"}
                     \/ j = "OVL" /\ i \in {"SIL", "A", "B"}
                  THEN params.ovl_transition_cost
                  ELSE IF j = "LEAK" /\ i \in {"A", "B", "OVL"} THEN params.leak_entry_bias
                  ELSE m1[i][j]]]
        m3 == [m2 EXCEPT !["LEAK"]["SIL"] = LEAK_EXIT_TO_SIL_PENALTY,
                         !["LEAK"]["A"] = LEAK_TO_AB_FORBID,
                         !["LEAK"]["B"] = LEAK_TO_AB_FORBID,
                         !["LEAK"]["OVL"] = LEAK_TO_OVL_PENALTY]
        m4 == [i \in StateSet |-> [j \in StateSet |->
                  IF i = "SIL" THEN Plus(m3[i][j], SIL_EXIT_PENALTY) ELSE m3[i][j]]]
        m5 == [i \in StateSet |-> [j \in StateSet |->
                  IF j = "SIL" THEN Plus(m4[i][j], SIL_ENTER_PENALTY) ELSE m4[i][j]]]
    IN  [m5 EXCEPT !["SIL"]["SIL"] = STAY_REWARD,
                   !["SIL"]["LEAK"] = LEAK_FORBID,
                   !["LEAK"]["A"] = LEAK_TO_AB_FORBID,
                   !["LEAK"]["B"] = LEAK_TO_AB_FORBID]

\* constraints.default_min_durations
DefaultMinDurations ==
    [s \in StateSet |-> IF s = "SIL" THEN MIN_SIL_FRAMES ELSE MIN_IPU_FRAMES]

\* decoder.py:117: min_durations or default_min_durations() (None and {} are falsy).
ResolvedMinDurations(arg) ==
    IF arg = <<>> THEN DefaultMinDurations
    ELSE IF DOMAIN arg[1] = {} THEN DefaultMinDurations
    ELSE arg[1]

\* Mutant of Dur: no state is expanded into a chain.
Dur_Unexpanded(md, name) == 1

\* constraints.py:110 and 125: max(1, int(min_durations.get(name, 1)))
Dur(md, name) ==
    LET d == IF name \in DOMAIN md THEN md[name] ELSE 1
    IN  IF d > 1 THEN d ELSE 1

\* constraints.py:108-112: the expanded states of the base states from position b on.
RECURSIVE ExpandFrom(_, _)
ExpandFrom(md, b) ==
    IF b > Len(STATE_NAMES) THEN <<>>
    ELSE [k \in 1..Dur(md, STATE_NAMES[b]) |-> <<STATE_NAMES[b], k - 1>>]
            \o ExpandFrom(md, b + 1)

ExpandedStates(md) == ExpandFrom(md, 1)

\* Mutant of InChain: the chain ends one sub-state early.
InChain_OneShort(sub, d) == sub < d - 2

\* constraints.py:126: src_sub < d_src - 1, "must stay within duration chain".
InChain(sub, d) == sub < d - 1

\* Mutant of ExpandedTrans: the destination may be entered at any sub-state.
ExpandedTrans_AnySubstate(xs, md, base) ==
    [i \in 1..Len(xs) |-> [j \in 1..Len(xs) |->
        IF InChain(xs[i][2], Dur(md, xs[i][1]))
        THEN (IF j = i + 1 THEN STAY_REWARD ELSE NegInf)
        ELSE IF j = i THEN STAY_REWARD
        ELSE base[xs[i][1]][xs[j][1]]]]

\* constraints.py:114-139: the expanded transition matrix.
ExpandedTrans(xs, md, base) ==
    [i \in 1..Len(xs) |-> [j \in 1..Len(xs) |->
        IF InChain(xs[i][2], Dur(md, xs[i][1]))
        THEN (IF j = i + 1 THEN STAY_REWARD ELSE NegInf)
        ELSE IF j = i THEN STAY_REWARD
        ELSE IF xs[j][2] = 0 THEN base[xs[i][1]][xs[j][1]]
        ELSE NegInf]]

\* Mutant of DefaultInitial: LEAK may start a sequence like any other state.
DefaultInitial_LeakAllowed == [s \in StateSet |-> 0]

\* decoder.py:125-128: zeros, with init_base[LEAK] = -inf.
DefaultInitial == [s \in StateSet |-> IF s = "LEAK" THEN NegInf ELSE 0]

\* decoder.py:133-136: the base initial scores on the first sub-states, -inf elsewhere.
InitExpanded(xs, initial) ==
    LET init_base == IF initial = <<>> THEN DefaultInitial ELSE initial[1]
    IN  [i \in 1..Len(xs) |-> IF xs[i][2] = 0 THEN init_base[xs[i][1]] ELSE NegInf]

\* decoder.expand_scores, one row.
ExpandRow(row, xs) == [j \in 1..Len(xs) |-> row[xs[j][1]]]

\* Mutant of ArgMaxFrom: a later equal value replaces the best so far.
RECURSIVE ArgMaxFrom_Last(_, _, _)
ArgMaxFrom_Last(vals, i, best) ==
    IF i > Len(vals) THEN best
    ELSE ArgMaxFrom_Last(vals, i + 1, IF vals[i] >= vals[best] THEN i ELSE best)

\* np.argmax as a scan from the left: a later value replaces the best only if greater.
RECURSIVE ArgMaxFrom(_, _, _)
ArgMaxFrom(vals, i, best) ==
    IF i > Len(vals) THEN best
    ELSE ArgMaxFrom(vals, i + 1, IF vals[i] > vals[best] THEN i ELSE best)

\* Mutant of ArgMax: the first index whatever the values.
ArgMax_FirstIndex(vals) == 1

\* np.argmax over a non-empty vector.
ArgMax(vals) == ArgMaxFrom(vals, 2, 1)

\* decoder.py:67-68: the backtrace from state s of row t, as the path up to t.
RECURSIVE Backtrace(_, _, _)
Backtrace(bprows, t, s) ==
    IF t = 1 THEN <<s>> ELSE Append(Backtrace(bprows, t - 1, bprows[t][s]), s)

(***************************************************************************)
(* The inputs of the modelled decoder calls.                               *)
(***************************************************************************)
\* min_durations: None, the defaults with A = 2 (tests/test_decoder_constraints.py),
\* an override that names A and B only, and a map of ones.
DurationChoices ==
    {<<>>,
     <<[DefaultMinDurations EXCEPT !["A"] = 2]>>,
     <<[s \in {"A", "B"} |-> IF s = "A" THEN 2 ELSE 0]>>,
     <<[s \in StateSet |-> 1]>>}

\* The transition argument: None, or base_transition_matrix under tuning parameters
\* that reward a speaker switch and the entry into LEAK.
TuningChoices ==
    {<<>>,
     <<[speaker_switch_penalty |-> 2, leak_entry_bias |-> 4, ovl_transition_cost |-> -7]>>}

\* initial: None, and the vector of test_leak_cannot_start_after_silence.
InitialChoices ==
    {<<>>, <<[s \in StateSet |-> IF s = "LEAK" THEN -10 ELSE 0]>>}

\* The calls examined: at most one argument given, or minimum durations of one frame
\* with any transition and initial argument.
DecodeConfigs ==
    {c \in [min_durations : DurationChoices, tuning : TuningChoices, initial : InitialChoices] :
        \/ c.min_durations = <<[s \in StateSet |-> 1]>>
        \/ Len(c.min_durations) + Len(c.tuning) + Len(c.initial) <= 1}

\* Score rows: zero everywhere but for the favoured states, which get Margin
\* (decoder.scripted_block_scores favours one state a row).
FavouredSets == {{}} \cup {{s} : s \in StateSet} \cup {{"A", "B"}}

Rows == {[s \in StateSet |-> IF s \in F THEN Margin ELSE 0] : F \in FavouredSets}

\* No pipeline exists while the decoder is examined.
PipeIdle ==
    /\ cfg = [mode |-> "run", max_failures |-> <<>>]
    /\ steps = <<>>
    /\ status = [n \in Names |-> "none"]
    /\ records = <<>>
    /\ results = <<>>
    /\ remaining = {}
    /\ decided = {}
    /\ progressed = FALSE
    /\ todo = <<>>
    /\ ran = <<>>
    /\ pc = "idle"

InitDecodeWith(configs) ==
    /\ PipeIdle
    /\ FusionIdle /\ F1Idle /\ DeltaIdle /\ TuneIdle /\ HarnessIdle /\ CacheIdle /\ IpuIdle /\ ResampleIdle /\ RunIdle
    /\ dcfg \in configs
    /\ scores = <<>>
    /\ base_trans = <<>>
    /\ xstates = <<>>
    /\ xtrans = <<>>
    /\ xinit = <<>>
    /\ dp = <<>>
    /\ bp = <<>>
    /\ path_idx = <<>>
    /\ path_score = <<>>
    /\ path = <<>>
    /\ dpc = "idle"

InitDecode == InitDecodeWith(DecodeConfigs)

\* decode_with_constraints, lines 113-136: durations, transitions, expansion, initial.
DecodeCall ==
    /\ dpc = "idle"
    /\ LET md == ResolvedMinDurations(dcfg.min_durations)
           xs == ExpandedStates(md)
           bt == BaseTransitionMatrix(dcfg.tuning)
       IN  /\ base_trans' = bt
           /\ xstates' = xs
           /\ xtrans' = ExpandedTrans(xs, md, bt)
           /\ xinit' = InitExpanded(xs, dcfg.initial)
    /\ dpc' = "first"
    /\ UNCHANGED <<dcfg, scores, dp, bp, path_idx, path_score, path>>
    /\ UNCHANGED outsideDecode

\* viterbi_decode, lines 53-54: dp[0] = init + scores[0]; bp[0] = -1.
ViterbiFirst(row) ==
    /\ dpc = "first"
    /\ scores' = <<row>>
    /\ dp' = <<[i \in 1..Len(xstates) |-> Plus(xinit[i], ExpandRow(row, xstates)[i])]>>
    /\ bp' = <<[i \in 1..Len(xstates) |-> 0]>>
    /\ dpc' = "loop"
    /\ UNCHANGED <<dcfg, base_trans, xstates, xtrans, xinit, path_idx, path_score, path>>
    /\ UNCHANGED outsideDecode

\* viterbi_decode, lines 56-60: one iteration of the recurrence.
ViterbiStep(row) ==
    /\ dpc = "loop"
    /\ LET S == Len(xstates)
           last == dp[Len(dp)]
           bprow == [j \in 1..S |-> ArgMax([i \in 1..S |-> Plus(last[i], xtrans[i][j])])]
           erow == ExpandRow(row, xstates)
       IN  /\ bp' = Append(bp, bprow)
           /\ dp' = Append(dp, [j \in 1..S |->
                        Plus(Plus(last[bprow[j]], xtrans[bprow[j]][j]), erow[j])])
    /\ scores' = Append(scores, row)
    /\ UNCHANGED <<dcfg, base_trans, xstates, xtrans, xinit, path_idx, path_score, path, dpc>>
    /\ UNCHANGED outsideDecode

\* viterbi_decode, lines 62-70, and decoder.py:139: final argmax, backtrace, collapse.
ViterbiReturn ==
    /\ dpc = "loop"
    /\ LET T == Len(dp)
           last_state == ArgMax(dp[T])
           p == Backtrace(bp, T, last_state)
       IN  /\ path_idx' = p
           /\ path_score' = <<dp[T][last_state]>>
           /\ path' = [t \in 1..T |-> xstates[p[t]][1]]
    /\ dpc' = "done"
    /\ UNCHANGED <<dcfg, scores, base_trans, xstates, xtrans, xinit, dp, bp>>
    /\ UNCHANGED outsideDecode

NextDecode ==
    \/ DecodeCall
    \/ \E row \in Rows : ViterbiFirst(row)
    \/ \E row \in Rows : Len(scores) < MaxT /\ ViterbiStep(row)
    \/ ViterbiReturn

SpecDecode == InitDecode /\ [][NextDecode]_vars

(***************************************************************************)
(*                       Properties of the decoder                         *)
(***************************************************************************)
\* The positions at which a maximal run of the returned path starts.
RunStarts == {t \in 1..Len(path) : t = 1 \/ path[t] # path[t - 1]}

\* The last position of the maximal run that starts at t.
RunEnd(t) ==
    CHOOSE e \in t..Len(path) :
        /\ \A k \in t..e : path[k] = path[t]
        /\ e = Len(path) \/ path[e + 1] # path[t]

RunLength(t) == RunEnd(t) - t + 1

\* The minimum durations d of the call: the given map, or the defaults.
GivenDurations == ResolvedMinDurations(dcfg.min_durations)

\* C6 (as amended): in a returned path every maximal run of a base state s that is
\* followed by another state has length >= d_s; the last run of the path may be
\* shorter.
C6_NonFinalRunsRespectMinDuration ==
    dpc = "done" =>
        /\ Len(path) = Len(scores)
        /\ \A t \in RunStarts :
              (RunEnd(t) < Len(path) /\ path[t] \in DOMAIN GivenDurations) =>
                  RunLength(t) >= GivenDurations[path[t]]

\* C6 as stated: every maximal run of s has length >= d_s, for every T >= 1.
C6_EveryRunRespectsMinDuration ==
    dpc = "done" =>
        \A t \in RunStarts :
            path[t] \in DOMAIN GivenDurations => RunLength(t) >= GivenDurations[path[t]]

\* A path whose first run lasts exactly its minimum of two or more frames and whose
\* last run is cut short by the end of the scores.
C6_Witness ==
    /\ dpc = "done"
    /\ path[1] \in DOMAIN GivenDurations
    /\ GivenDurations[path[1]] >= 2
    /\ RunLength(1) = GivenDurations[path[1]]
    /\ RunEnd(1) < Len(path)
    /\ \E t \in RunStarts :
          /\ RunEnd(t) = Len(path)
          /\ path[t] \in DOMAIN GivenDurations
          /\ RunLength(t) < GivenDurations[path[t]]

\* C7: with the default initial scores and a base matrix built by
\* base_transition_matrix, the path never holds SIL followed by LEAK, nor LEAK
\* followed by A or B.
C7_NoForbiddenTransition ==
    (dpc = "done" /\ dcfg.initial = <<>>) =>
        \A t \in 1..(Len(path) - 1) :
            /\ ~(path[t] = "SIL" /\ path[t + 1] = "LEAK")
            /\ ~(path[t] = "LEAK" /\ path[t + 1] \in {"A", "B"})

\* The path is in LEAK on a frame whose successor favours A or B over LEAK.
C7_Witness ==
    /\ dpc = "done"
    /\ dcfg.initial = <<>>
    /\ \E t \in 1..(Len(path) - 1) :
          /\ path[t] = "LEAK"
          /\ scores[t + 1]["A"] = Margin \/ scores[t + 1]["B"] = Margin
          /\ scores[t + 1]["LEAK"] = 0

\* Every argument of the call is None: default durations, transitions, initial.
AllDefaults == dcfg = [min_durations |-> <<>>, tuning |-> <<>>, initial |-> <<>>]

\* The first label of the path that is not SIL, "SIL" if there is none.
FirstNonSil ==
    LET ns == {t \in 1..Len(path) : path[t] # "SIL"}
    IN  IF ns = {} THEN "SIL" ELSE path[CHOOSE t \in ns : \A u \in ns : t <= u]

\* C8: with every default, the path does not start with LEAK, its first non-SIL
\* label is not LEAK, every LEAK run follows A, B or OVL, and LEAK is absent from
\* the first two frames.
C8_LeakNeverInitiates ==
    (dpc = "done" /\ AllDefaults) =>
        /\ path[1] # "LEAK"
        /\ FirstNonSil # "LEAK"
        /\ \A t \in RunStarts : path[t] = "LEAK" => (t > 1 /\ path[t - 1] \in {"A", "B", "OVL"})
        /\ \A t \in 1..Len(path) : t <= 2 => path[t] # "LEAK"

\* The first two frames favour LEAK; the path avoids it there and enters LEAK later.
C8_Witness ==
    /\ dpc = "done"
    /\ AllDefaults
    /\ Len(scores) >= 2
    /\ scores[1]["LEAK"] = Margin
    /\ scores[2]["LEAK"] = Margin
    /\ \E t \in 1..Len(path) : path[t] = "LEAK"

\* The value np.argmax sees in column j of prev at iteration t (t >= 2).
PrevCell(t, i, j) == Plus(dp[t - 1][i], xtrans[i][j])

\* C9: ties go to the lowest expanded-state index: each backpointer is the least
\* index that attains the column maximum, the final state is the least index that
\* attains the maximum of the last dp row, and the path is the backtrace from it.
C9_LowestIndexWinsTies ==
    /\ \A t \in 2..Len(bp) : \A j \in 1..Len(xstates) :
          LET best == PrevCell(t, bp[t][j], j) IN
          \A i \in 1..Len(xstates) :
              LET cand == PrevCell(t, i, j) IN
              cand <= best /\ (i < bp[t][j] => cand < best)
    /\ dpc = "done" =>
          LET T == Len(dp)
              best == dp[T][path_idx[T]]
          IN  /\ \A i \in 1..Len(xstates) :
                    dp[T][i] <= best /\ (i < path_idx[T] => dp[T][i] < best)
              /\ \A t \in 2..T : path_idx[t - 1] = bp[t][path_idx[t]]

\* Two expanded states tie for the final maximum and some backpointer column ties.
C9_Witness ==
    /\ dpc = "done"
    /\ Len(dp) >= 2
    /\ \E i \in 1..Len(xstates) : i # path_idx[Len(dp)] /\ dp[Len(dp)][i] = dp[Len(dp)][path_idx[Len(dp)]]
    /\ \E j \in 1..Len(xstates) : \E i \in 1..Len(xstates) :
          /\ i # bp[2][j]
          /\ PrevCell(2, i, j) # NegInf
          /\ PrevCell(2, i, j) = PrevCell(2, bp[2][j], j)

\* The table of the specification in half-units, with the entries of its SIL row
\* (sil_row), of its SIL column (sil_col) and LEAK -> SIL (leak_sil) as parameters.
TransitionTable(sil_row, sil_col, leak_sil) ==
    [i \in StateSet |-> [j \in StateSet |->
        IF i = j THEN 0
        ELSE IF i = "SIL" THEN (IF j = "LEAK" THEN NegInf ELSE sil_row)
        ELSE IF i = "LEAK" THEN (IF j = "SIL" THEN leak_sil ELSE IF j = "OVL" THEN -10 ELSE NegInf)
        ELSE IF j = "SIL" THEN sil_col
        ELSE IF j = "LEAK" THEN -4
        ELSE IF {i, j} = {"A", "B"} THEN -12
        ELSE -6]]

\* C10 (as amended): with default parameters SIL->A = SIL->B = SIL->OVL = -3+SXP =
\* -4.0; A->SIL = B->SIL = OVL->SIL = -3+SEP = -3.5; LEAK->SIL = LXP+SEP = -1.0;
\* A<->B = -6; A/B<->OVL = -3; A/B/OVL->LEAK = -2; LEAK->OVL = -5; the diagonal is 0;
\* SIL->LEAK = LEAK->A = LEAK->B = -inf.
C10_DefaultMatrixIsCodeTable ==
    (dpc # "idle" /\ dcfg.tuning = <<>>) => base_trans = TransitionTable(-8, -7, -2)

\* C10 as stated: SIL->A/B/OVL = -3.5, A/B/OVL->SIL = -4.0, LEAK->SIL = -0.5.
C10_DefaultMatrixIsSpecTable ==
    (dpc # "idle" /\ dcfg.tuning = <<>>) => base_trans = TransitionTable(-7, -8, -1)

\* A call with the default transition argument has built its base matrix.
C10_Witness ==
    /\ dpc = "first"
    /\ dcfg.tuning = <<>>
    /\ base_trans["SIL"]["A"] = -8
    /\ base_trans["A"]["SIL"] = -7
    /\ base_trans["LEAK"]["SIL"] = -2

(***************************************************************************)
(*        Evidence: TimeBase, EvidenceTrack, EvidenceBundle, fusion        *)
(***************************************************************************)
\* A hop is stored as its distance from 0.01 s in units of 1e-13 s, so that
\* timebase.CANONICAL_HOP_S = 0.01 is 0.
CANONICAL_HOP_S == 0
\* timebase._HOP_TOL = 1e-12, also the literal tolerance of bundle.py and fusion.py.
HOP_TOL == 10

Abs(x) == IF x < 0 THEN -x ELSE x

\* TimeBase.is_canonical: math.isclose(hop_s, CANONICAL_HOP_S, rel_tol=0, abs_tol=_HOP_TOL)
IsCanonical(hop) == Abs(hop - CANONICAL_HOP_S) <= HOP_TOL

\* TimeBase(hop_s, n_frames): __post_init__ snaps a hop within tolerance to the
\* canonical one; n_frames is <<>> for None.
TimeBase(hop, n) ==
    [hop_s |-> IF IsCanonical(hop) THEN CANONICAL_HOP_S ELSE hop, n_frames |-> n]

\* The hops given to TimeBase: canonical, within its tolerance, and a hop 1e-7 s
\* off the canonical one with drifts of 0.8e-12 s and 1.6e-12 s.
HopChoices ==
    {CANONICAL_HOP_S, CANONICAL_HOP_S + 6,
     CANONICAL_HOP_S + 1000000, CANONICAL_HOP_S + 1000008, CANONICAL_HOP_S + 1000016}

\* The value shapes of tracks: (T,) is <<T>>, (T, K) is <<T, K>>.
Shapes ==
    {<<t>> : t \in 1..MaxFrames} \cup {<<t, k>> : t \in 1..MaxFrames, k \in {2, 3}}

\* EvidenceTrack(timebase, values, semantics): __post_init__ accepts T > 0 with 1
\* or 2 dimensions and a timebase whose n_frames is None or the length of the values.
EvidenceTrack(hop, n, shape, semantics) ==
    [timebase |-> TimeBase(hop, n), shape |-> shape, semantics |-> semantics]

\* EvidenceTrack.T
TrackT(track) == track.shape[1]

TrackNames == {"vad", "prior_ab"}

\* The vad tracks: one-dimensional, of every length on the canonical hop, and of
\* length MaxFrames on the other hops.
VadTracks ==
    {EvidenceTrack(CANONICAL_HOP_S, <<>>, <<t>>, sem) :
        t \in 1..MaxFrames, sem \in {"probability", "score"}}
    \cup {EvidenceTrack(h, <<>>, <<MaxFrames>>, "probability") : h \in HopChoices}

\* The prior_ab tracks: every shape on the canonical hop, as scores; one that is
\* not a score; and two that carry n_frames.
PriorTracks ==
    {EvidenceTrack(CANONICAL_HOP_S, <<>>, sh, "score") : sh \in Shapes}
    \cup {EvidenceTrack(CANONICAL_HOP_S, <<>>, <<2>>, "probability"),
          EvidenceTrack(CANONICAL_HOP_S, <<2>>, <<2>>, "score"),
          EvidenceTrack(CANONICAL_HOP_S, <<MaxFrames>>, <<MaxFrames, 2>>, "score")}

\* The tracks a caller stores under a name.
TracksFor(name) == IF name = "vad" THEN VadTracks ELSE PriorTracks

\* Mutant of ValidateTrack: the hop comparison is dropped.
ValidateTrack_NoHopCheck(b, track) ==
    /\ ~(b.timebase.n_frames # <<>> /\ track.timebase.n_frames \notin {<<>>, b.timebase.n_frames})
    /\ ~(b.require_canonical /\ ~IsCanonical(track.timebase.hop_s))

\* EvidenceBundle._validate_track: TRUE when it returns, FALSE when it raises.
ValidateTrack(b, track) ==
    /\ ~(Abs(track.timebase.hop_s - b.timebase.hop_s) > HOP_TOL)
    /\ ~(b.timebase.n_frames # <<>> /\ track.timebase.n_frames \notin {<<>>, b.timebase.n_frames})
    /\ ~(b.require_canonical /\ ~IsCanonical(track.timebase.hop_s))

\* EvidenceBundle.__post_init__: TRUE when the bundle is constructed.
BundleAccepted(b) ==
    /\ ~(b.require_canonical /\ Abs(b.timebase.hop_s - CANONICAL_HOP_S) > HOP_TOL)
    /\ \A name \in DOMAIN b.tracks : ValidateTrack(b, b.tracks[name])

\* dict assignment tracks[name] = track.
PutTrack(tracks, name, track) ==
    [n \in DOMAIN tracks \cup {name} |-> IF n = name THEN track ELSE tracks[n]]

\* dict(self.tracks) updated with other.tracks.
MergedTracks(mine, theirs) ==
    [n \in DOMAIN mine \cup DOMAIN theirs |-> IF n \in DOMAIN theirs THEN theirs[n] ELSE mine[n]]

\* The timebases of bundles: n_frames None or 0..MaxFrames.
BundleTimebases ==
    {TimeBase(h, n) : h \in HopChoices, n \in {<<>>} \cup {<<k>> : k \in {0, MaxFrames}}}

\* The arguments given to EvidenceBundle(...): no track or one track.
BundleArgs ==
    {[timebase |-> tb, require_canonical |-> rc, tracks |-> tr] :
        tb \in BundleTimebases, rc \in BOOLEAN,
        tr \in {<<>>} \cup UNION {{[n \in {name} |-> t] : t \in TracksFor(name)} : name \in TrackNames}}

\* The bundles that exist: the arguments __post_init__ accepts.
Bundles == {b \in BundleArgs : BundleAccepted(b)}

\* fusion._check_timebases: <<T>> when it returns T, <<>> when it raises.  n_frames
\* starts as tb.n_frames, is set from the first track when None, and every track
\* length must equal it; it is still None after the loop only if there was no
\* track and no tb.n_frames.
CheckTimebases(b) ==
    LET tb == b.timebase
        names == DOMAIN b.tracks
        lengths == {TrackT(b.tracks[n]) : n \in names}
                      \cup (IF tb.n_frames = <<>> THEN {} ELSE {tb.n_frames[1]})
    IN  IF ~IsCanonical(tb.hop_s) THEN <<>>
        ELSE IF \E n \in names : Abs(b.tracks[n].timebase.hop_s - tb.hop_s) > HOP_TOL THEN <<>>
        ELSE IF Cardinality(lengths) > 1 THEN <<>>
        ELSE IF lengths = {} THEN <<>>
        ELSE <<CHOOSE k \in lengths : TRUE>>

\* fusion.py:108-126: how the prior_ab values are read: "none" without the track,
\* "constant2" for shape (2,), "constant1" for shape (1,), "per_frame" for (T, 2),
\* "raise" for a ValueError.
PriorOffsets(b, T) ==
    IF "prior_ab" \notin DOMAIN b.tracks THEN "none"
    ELSE LET prior == b.tracks["prior_ab"]
             shape == prior.shape
         IN  IF prior.semantics # "score" THEN "raise"
             ELSE IF Len(shape) = 1
                  THEN (IF shape[1] = 2 THEN "constant2"
                        ELSE IF shape[1] = 1 THEN "constant1"
                        ELSE "raise")
             ELSE IF shape[2] = 2
                  THEN (IF shape[1] # T THEN "raise" ELSE "per_frame")
             ELSE "raise"

\* fusion._require_prob_or_logit on the vad track, when there is one.
VadAccepted(b) ==
    "vad" \in DOMAIN b.tracks => b.tracks["vad"].semantics \in {"probability", "logit"}

\* fuse_bundle_to_scores: the (T, 5) array is kept as its length T and the way the
\* prior offsets enter the A and B columns.
FuseBundleToScores(b) ==
    LET n == CheckTimebases(b) IN
    IF n = <<>> THEN [raised |-> TRUE]
    ELSE IF ~VadAccepted(b) THEN [raised |-> TRUE]
    ELSE IF PriorOffsets(b, n[1]) = "raise" THEN [raised |-> TRUE]
    ELSE [raised |-> FALSE, T |-> n[1], prior |-> PriorOffsets(b, n[1])]

InitFusion ==
    /\ PipeIdle /\ DecodeIdle
    /\ F1Idle /\ DeltaIdle /\ TuneIdle /\ HarnessIdle /\ CacheIdle /\ IpuIdle /\ ResampleIdle /\ RunIdle
    /\ FusionIdle

\* EvidenceBundle(timebase, require_canonical, tracks)
Construct(args) ==
    /\ bundle = <<>>
    /\ IF BundleAccepted(args)
       THEN /\ bundle' = args
            /\ bundle_op' = [op |-> "init", raised |-> FALSE]
       ELSE /\ bundle' = bundle
            /\ bundle_op' = [op |-> "init", raised |-> TRUE]
    /\ fused' = <<>>
    /\ UNCHANGED outsideFusion

\* EvidenceBundle.add_track(name, track)
AddTrack(name, track) ==
    /\ bundle # <<>>
    /\ IF ValidateTrack(bundle, track)
       THEN /\ bundle' = [bundle EXCEPT !.tracks = PutTrack(@, name, track)]
            /\ bundle_op' = [op |-> "add_track", raised |-> FALSE, name |-> name, track |-> track]
       ELSE /\ bundle' = bundle
            /\ bundle_op' = [op |-> "add_track", raised |-> TRUE, name |-> name, track |-> track]
    /\ fused' = <<>>
    /\ UNCHANGED outsideFusion

\* EvidenceBundle.merge(other); the model goes on with the bundle it returns.
Merge(other) ==
    /\ bundle # <<>>
    /\ LET merged == [timebase |-> bundle.timebase,
                      require_canonical |-> bundle.require_canonical,
                      tracks |-> MergedTracks(bundle.tracks, other.tracks)]
       IN  IF /\ ~(Abs(other.timebase.hop_s - bundle.timebase.hop_s) > HOP_TOL)
              /\ BundleAccepted(merged)
           THEN /\ bundle' = merged
                /\ bundle_op' = [op |-> "merge", raised |-> FALSE]
           ELSE /\ bundle' = bundle
                /\ bundle_op' = [op |-> "merge", raised |-> TRUE]
    /\ fused' = <<>>
    /\ UNCHANGED outsideFusion

\* fuse_bundle_to_scores(bundle)
Fuse ==
    /\ bundle # <<>>
    /\ fused = <<>>
    /\ fused' = FuseBundleToScores(bundle)
    /\ UNCHANGED <<bundle, bundle_op>>
    /\ UNCHANGED outsideFusion

NextFusion ==
    \/ \E args \in BundleArgs : Construct(args)
    \/ \E name \in TrackNames : \E track \in TracksFor(name) : AddTrack(name, track)
    \/ \E other \in Bundles : Merge(other)
    \/ Fuse

SpecFusion == InitFusion /\ [][NextFusion]_vars

(***************************************************************************)
(*                 Properties of the bundle and of fusion                  *)
(***************************************************************************)
\* C11: fuse_bundle_to_scores fails for every bundle that holds no tracks, whether
\* or not the bundle's timebase carries n_frames.
C11_EmptyBundleFails ==
    (fused # <<>> /\ DOMAIN bundle.tracks = {}) => fused.raised

\* The bundle as it is without its prior_ab track.
WithoutPrior ==
    [bundle EXCEPT !.tracks = [n \in DOMAIN bundle.tracks \ {"prior_ab"} |-> bundle.tracks[n]]]

\* C12: a prior_ab score track of shape (2,) is accepted in a bundle of any length T
\* as a constant offset, one of shape (T, 2) is accepted, and a prior_ab of any other
\* shape is rejected (in a bundle whose vad track alone fuses to T frames).
C12_PriorShapesAccepted ==
    (/\ fused # <<>>
     /\ {"vad", "prior_ab"} \subseteq DOMAIN bundle.tracks
     /\ bundle.tracks["prior_ab"].semantics = "score"
     /\ ~FuseBundleToScores(WithoutPrior).raised)
    => LET T == FuseBundleToScores(WithoutPrior).T
           shape == bundle.tracks["prior_ab"].shape
       IN  IF shape = <<2>>
           THEN ~fused.raised /\ fused.T = T /\ fused.prior = "constant2"
           ELSE IF shape = <<T, 2>>
           THEN ~fused.raised /\ fused.T = T /\ fused.prior = "per_frame"
           ELSE fused.raised

\* Every track of the bundle is within 1e-12 s of the bundle's hop, and canonical
\* when the bundle requires it.
TracksMatchBundle ==
    bundle # <<>> =>
        \A n \in DOMAIN bundle.tracks :
            /\ Abs(bundle.tracks[n].timebase.hop_s - bundle.timebase.hop_s) <= HOP_TOL
            /\ bundle.require_canonical => IsCanonical(bundle.tracks[n].timebase.hop_s)

\* What a step that is an add_track call does to the bundle: nothing when it
\* raises, and otherwise the track is stored under its name, in place of the track
\* that had the name, with every other track kept.
AddTrackEffect ==
    (bundle_op' # <<>> /\ bundle_op'.op = "add_track") =>
        IF bundle_op'.raised
        THEN bundle' = bundle
        ELSE /\ bundle'.timebase = bundle.timebase
             /\ bundle'.require_canonical = bundle.require_canonical
             /\ DOMAIN bundle'.tracks = DOMAIN bundle.tracks \cup {bundle_op'.name}
             /\ bundle'.tracks[bundle_op'.name] = bundle_op'.track
             /\ \A n \in DOMAIN bundle.tracks \ {bundle_op'.name} :
                   bundle'.tracks[n] = bundle.tracks[n]

\* C18: after any sequence of construction, add_track and merge calls every track
\* of the bundle is within 1e-12 s of the bundle's hop (and canonical when
\* require_canonical is set); an add_track that raises leaves the tracks unchanged
\* and an add_track under an existing name replaces that track.
C18_BundleHopInvariant ==
    /\ []TracksMatchBundle
    /\ [][bundle_op' # bundle_op => AddTrackEffect]_vars

\* An add_track was refused for its hop on a bundle that holds a track, and the
\* bundle is not on the canonical hop.
C18_Witness ==
    /\ bundle # <<>>
    /\ bundle_op.op = "add_track"
    /\ bundle_op.raised
    /\ Abs(bundle_op.track.timebase.hop_s - bundle.timebase.hop_s) > HOP_TOL
    /\ ~IsCanonical(bundle.timebase.hop_s)
    /\ bundle_op.name \in DOMAIN bundle.tracks
    /\ bundle.tracks[bundle_op.name].timebase.hop_s # bundle.timebase.hop_s

(***************************************************************************)
(*                        Metrics: boundary_f1                             *)
(***************************************************************************)
\* Times are in milliseconds.  The boundary times of the modelled calls: those of
\* tests/eval/test_metrics.py (0.1, 0.5, 0.11, 0.7) and 0.12 for equidistant cases.
BoundaryTimes == {100, 110, 120, 500, 700}

\* tol_s: 0, and the 20 ms and 50 ms of the harness.
Tolerances == {0, 20, 50}

BoundaryLists == UNION {[1..n -> BoundaryTimes] : n \in 0..MaxBoundaries}

\* The reference boundaries are drawn from three of these times.
RefLists == UNION {[1..n -> {100, 120, 500}] : n \in 0..MaxBoundaries}

\* Insert x into the sorted sequence sq.
RECURSIVE InsertSorted(_, _)
InsertSorted(sq, x) ==
    IF sq = <<>> THEN <<x>>
    ELSE IF x < Head(sq) THEN <<x>> \o sq
    ELSE <<Head(sq)>> \o InsertSorted(Tail(sq), x)

\* np.sort of a list of times.
RECURSIVE NpSort(_)
NpSort(sq) == IF sq = <<>> THEN <<>> ELSE InsertSorted(NpSort(Tail(sq)), Head(sq))

\* metrics.py:17-18: the indices of the unused references within tol of h, ascending.
Candidates(ref, used, h, tol) ==
    SelectSeq([i \in 1..Len(ref) |-> i], LAMBDA i : Abs(ref[i] - h) <= tol /\ ~used[i])

\* Mutant of MinByDistance: of equally close candidates the last one is taken.
RECURSIVE MinByDistance_LastOfEqual(_, _, _, _, _)
MinByDistance_LastOfEqual(cands, ref, h, k, best) ==
    IF k > Len(cands) THEN best
    ELSE MinByDistance_LastOfEqual(cands, ref, h, k + 1,
            IF Abs(ref[cands[k]] - h) <= Abs(ref[best] - h) THEN cands[k] ELSE best)

\* metrics.py:22: min(candidates, key=...) scans from the left and keeps the first
\* of the smallest keys.
RECURSIVE MinByDistance(_, _, _, _, _)
MinByDistance(cands, ref, h, k, best) ==
    IF k > Len(cands) THEN best
    ELSE MinByDistance(cands, ref, h, k + 1,
            IF Abs(ref[cands[k]] - h) < Abs(ref[best] - h) THEN cands[k] ELSE best)

\* A ratio of the returned dict as <<numerator, denominator>>; 0.0 is <<0, 1>>.
Ratio(num, den) == IF den > 0 THEN <<num, den>> ELSE <<0, 1>>

\* metrics.py:29: f1 = 2*prec*rec / (prec + rec) if prec + rec > 0 else 0.0; with
\* prec = tp/(tp+fp) and rec = tp/(tp+fn) this is 2*tp / (2*tp + fp + fn) when tp > 0.
F1Ratio(tp, fp, fn) == IF tp > 0 THEN <<2 * tp, 2 * tp + fp + fn>> ELSE <<0, 1>>

InitF1 ==
    /\ PipeIdle /\ DecodeIdle
    /\ FusionIdle /\ DeltaIdle /\ TuneIdle /\ HarnessIdle /\ CacheIdle /\ IpuIdle /\ ResampleIdle /\ RunIdle
    /\ F1Idle

\* boundary_f1(ref, hyp, tol_s), lines 12-15: sort, clear ref_used, tp = 0.
F1Call(ref, hyp, tol) ==
    /\ f1_args = <<>>
    /\ f1_args' = [ref |-> NpSort(ref), hyp |-> NpSort(hyp), tol |-> tol]
    /\ f1_loop' = [k |-> 0, ref_used |-> [i \in 1..Len(ref) |-> FALSE], tp |-> 0, matched |-> <<>>]
    /\ f1_ret' = <<>>
    /\ UNCHANGED outsideF1

\* One iteration of the for loop over hyp, lines 16-24.
F1Iterate ==
    /\ f1_args # <<>> /\ f1_ret = <<>>
    /\ f1_loop.k < Len(f1_args.hyp)
    /\ LET h == f1_args.hyp[f1_loop.k + 1]
           cands == Candidates(f1_args.ref, f1_loop.ref_used, h, f1_args.tol)
       IN  IF cands = <<>>
           THEN f1_loop' = [f1_loop EXCEPT !.k = @ + 1, !.matched = Append(@, 0)]
           ELSE LET best == MinByDistance(cands, f1_args.ref, h, 2, cands[1])
                IN  f1_loop' = [k |-> f1_loop.k + 1,
                                ref_used |-> [f1_loop.ref_used EXCEPT ![best] = TRUE],
                                tp |-> f1_loop.tp + 1,
                                matched |-> Append(f1_loop.matched, best)]
    /\ UNCHANGED <<f1_args, f1_ret>>
    /\ UNCHANGED outsideF1

\* Lines 25-30: the counts and ratios of the returned dict.
F1Return ==
    /\ f1_args # <<>> /\ f1_ret = <<>>
    /\ f1_loop.k = Len(f1_args.hyp)
    /\ LET tp == f1_loop.tp
           fp == Len(f1_args.hyp) - tp
           fn == Len(f1_args.ref) - tp
       IN  f1_ret' = [precision |-> Ratio(tp, tp + fp), recall |-> Ratio(tp, tp + fn),
                      f1 |-> F1Ratio(tp, fp, fn), tp |-> tp, fp |-> fp, fn |-> fn]
    /\ UNCHANGED <<f1_args, f1_loop>>
    /\ UNCHANGED outsideF1

NextF1 ==
    \/ \E ref \in RefLists : \E hyp \in BoundaryLists : \E tol \in Tolerances :
          F1Call(ref, hyp, tol)
    \/ F1Iterate
    \/ F1Return

SpecF1 == InitF1 /\ [][NextF1]_vars

(***************************************************************************)
(*                       Properties of boundary_f1                         *)
(***************************************************************************)
\* C13: boundary_f1(x, x, tol) returns f1 = 1.0 for every boundary list x and every
\* tol >= 0, the empty list included.
C13_IdenticalInputsScoreOne ==
    (f1_ret # <<>> /\ f1_args.ref = f1_args.hyp) => f1_ret.f1[1] = f1_ret.f1[2]

\* The reference indices taken so far.
MatchedRefs == {f1_loop.matched[j] : j \in 1..Len(f1_loop.matched)} \ {0}

\* The references that were free when the j-th hypothesis was handled.
FreeBefore(j) == {i \in 1..Len(f1_args.ref) : \A m \in 1..(j - 1) : f1_loop.matched[m] # i}

\* C14: hypotheses are matched in increasing time order, each to the closest
\* not-yet-matched reference within tol_s (lowest index on ties); a reference is
\* matched at most once; tp is the number of matches, fp = |hyp| - tp and
\* fn = |ref| - tp; ref [0.1, 0.5], hyp [0.11, 0.7], tol 0.05 gives tp = fp = fn = 1.
C14_GreedyClosestMatching ==
    f1_args # <<>> =>
        LET ref == f1_args.ref
            hyp == f1_args.hyp
            tol == f1_args.tol
        IN  /\ \A j \in 1..(Len(hyp) - 1) : hyp[j] <= hyp[j + 1]
            /\ Len(f1_loop.matched) = f1_loop.k
            /\ \A j \in 1..f1_loop.k :
                  LET within == {i \in FreeBefore(j) : Abs(ref[i] - hyp[j]) <= tol}
                      m == f1_loop.matched[j]
                  IN  IF within = {} THEN m = 0
                      ELSE /\ m \in within
                           /\ \A i \in within :
                                 /\ Abs(ref[m] - hyp[j]) <= Abs(ref[i] - hyp[j])
                                 /\ Abs(ref[m] - hyp[j]) = Abs(ref[i] - hyp[j]) => m <= i
            /\ \A j1, j2 \in 1..f1_loop.k :
                  (j1 # j2 /\ f1_loop.matched[j1] # 0) => f1_loop.matched[j1] # f1_loop.matched[j2]
            /\ f1_ret # <<>> =>
                  /\ f1_ret.tp = Cardinality(MatchedRefs)
                  /\ f1_ret.fp = Len(hyp) - f1_ret.tp
                  /\ f1_ret.fn = Len(ref) - f1_ret.tp
                  /\ (ref = <<100, 500>> /\ hyp = <<110, 700>> /\ tol = 50) =>
                        (f1_ret.tp = 1 /\ f1_ret.fp = 1 /\ f1_ret.fn = 1)

\* The call of the test has returned.
C14_Witness ==
    /\ f1_ret # <<>>
    /\ f1_args = [ref |-> <<100, 500>>, hyp |-> <<110, 700>>, tol |-> 50]
    /\ f1_loop.matched = <<1, 0>>

(***************************************************************************)
(*                   Tuning: compute_delta_report                          *)
(***************************************************************************)
\* Metric values are in thousandths, factors in hundredths.
\* tuning.EASY_BOUNDARY_DROP_THRESHOLD = -0.05
EASY_BOUNDARY_DROP_THRESHOLD == -50
\* tuning.EASY_SWITCH_INCREASE_FACTOR = 1.20
EASY_SWITCH_INCREASE_FACTOR == 120
\* tuning.EASY_MICRO_IPU_INCREASE_FACTOR = 1.20
EASY_MICRO_IPU_INCREASE_FACTOR == 120
\* tuning.SUSPICIOUS_SWITCH_WORSE_FACTOR = 1.50
SUSPICIOUS_SWITCH_WORSE_FACTOR == 150
\* tuning.SUSPICIOUS_MICRO_WORSE_FACTOR = 1.50
SUSPICIOUS_MICRO_WORSE_FACTOR == 150

\* tuning.METRIC_KEYS
METRIC_KEYS ==
    <<"boundary_f1_20", "boundary_f1_50", "micro_ipus_per_min", "speaker_switches_per_min">>

\* A scorecard row of item "easy_1" with the keys evaluate_item writes ("harness")
\* or with those of the rows of tests/eval ("ms").
ScoreRow(keys, tier, f20, f50, micro, switches) ==
    IF keys = "harness"
    THEN [id |-> "easy_1", tier |-> tier,
          boundary_f1_20ms |-> f20, boundary_f1_50ms |-> f50,
          boundary_f1_20 |-> f20, boundary_f1_50 |-> f50,
          micro_ipus_per_min |-> micro,
          switches_per_min |-> switches, speaker_switches_per_min |-> switches]
    ELSE [id |-> "easy_1", tier |-> tier,
          boundary_f1_20ms |-> f20, boundary_f1_50ms |-> f50,
          micro_ipus_per_min |-> micro, switches_per_min |-> switches]

\* The baseline rows: the row of the tests (0.90, 0.95, 1.0, 2.0), and one without
\* switches.
BaselineRows ==
    {ScoreRow(k, t, 900, 950, 1000, sw) : k \in {"harness", "ms"}, t \in {"easy", "hard"}, sw \in {0, 2000}}

\* The current rows: improved, unchanged and regressed values.
CurrentRows ==
    {ScoreRow(k, t, f20, f20 + 50, mi, sw) :
        k \in {"harness", "ms"}, t \in {"easy", "hard"},
        f20 \in {700, 900, 920}, mi \in {900, 2000}, sw \in {0, 1800, 4000}}

\* dict.get(key, 0.0)
Get(row, key) == IF key \in DOMAIN row THEN row[key] ELSE 0

\* max(baseline, 1e-9) * factor < current, on thousandths: 1e-9 is below every
\* positive value of the model.
Exceeds(current, baseline, factor) ==
    IF baseline <= 0 THEN current > 0 ELSE current * 100 > baseline * factor

\* tuning.py:56-66: the row of one item: baseline, current and delta for each key.
DeltaRow(b, c) ==
    [id |-> c.id, tier |-> c.tier,
     baseline |-> [k \in {METRIC_KEYS[i] : i \in 1..Len(METRIC_KEYS)} |-> Get(b, k)],
     current |-> [k \in {METRIC_KEYS[i] : i \in 1..Len(METRIC_KEYS)} |-> Get(c, k)],
     delta |-> [k \in {METRIC_KEYS[i] : i \in 1..Len(METRIC_KEYS)} |-> Get(c, k) - Get(b, k)]]

\* tuning.py:68-90: the warnings of one row, as the set of their kinds.
RowWarnings(row) ==
    (IF row.tier = "easy" /\ row.delta["boundary_f1_20"] < EASY_BOUNDARY_DROP_THRESHOLD
     THEN {"boundary_f1_20 drop"} ELSE {})
    \cup
    (IF /\ row.tier = "easy"
        /\ Exceeds(row.current["speaker_switches_per_min"],
                   row.baseline["speaker_switches_per_min"], EASY_SWITCH_INCREASE_FACTOR)
     THEN {"switches increase"} ELSE {})
    \cup
    (IF /\ row.tier = "easy"
        /\ Exceeds(row.current["micro_ipus_per_min"],
                   row.baseline["micro_ipus_per_min"], EASY_MICRO_IPU_INCREASE_FACTOR)
     THEN {"micro-IPU rate increase"} ELSE {})
    \cup
    (IF /\ row.tier = "hard"
        /\ row.delta["boundary_f1_20"] > 0
        /\ \/ Exceeds(row.current["speaker_switches_per_min"],
                      row.baseline["speaker_switches_per_min"], SUSPICIOUS_SWITCH_WORSE_FACTOR)
           \/ Exceeds(row.current["micro_ipus_per_min"],
                      row.baseline["micro_ipus_per_min"], SUSPICIOUS_MICRO_WORSE_FACTOR)
     THEN {"suspicious improvement"} ELSE {})

\* compute_delta_report for scorecards of one row each, lines 104-110: the returned
\* dict has the keys params, baseline, rows, summary and warnings (params, baseline
\* and summary carry no decision and are left out).
ComputeDeltaReport(b, c) ==
    LET row == DeltaRow(b, c)
    IN  [rows |-> <<row>>, warnings |-> RowWarnings(row)]

InitDelta ==
    /\ PipeIdle /\ DecodeIdle
    /\ FusionIdle /\ F1Idle /\ TuneIdle /\ HarnessIdle /\ CacheIdle /\ IpuIdle /\ ResampleIdle /\ RunIdle
    /\ DeltaIdle

\* The scorecards are read.
DeltaCall(b, c) ==
    /\ delta_args = <<>>
    /\ delta_args' = [baseline |-> b, current |-> c]
    /\ report' = <<>>
    /\ UNCHANGED outsideDelta

\* compute_delta_report(baseline_payload, current_payload, ...)
DeltaReturn ==
    /\ delta_args # <<>>
    /\ report = <<>>
    /\ report' = ComputeDeltaReport(delta_args.baseline, delta_args.current)
    /\ UNCHANGED delta_args
    /\ UNCHANGED outsideDelta

NextDelta ==
    \/ \E b \in BaselineRows : \E c \in CurrentRows : DeltaCall(b, c)
    \/ DeltaReturn

SpecDelta == InitDelta /\ [][NextDelta]_vars

(***************************************************************************)
(*                   Properties of compute_delta_report                    *)
(***************************************************************************)
\* The guardrail rules of the specification on the two rows: an easy-tier item whose boundary_f1_20ms
\* or boundary_f1_50ms delta is below -0.05, or whose current switches_per_min
\* exceeds 1.25 * max(baseline, 1e-9), or whose current micro_ipus_per_min exceeds
\* 1.25 * baseline.
GuardrailViolated(b, c) ==
    /\ c.tier = "easy"
    /\ \/ c.boundary_f1_20ms - b.boundary_f1_20ms < -50
       \/ c.boundary_f1_50ms - b.boundary_f1_50ms < -50
       \/ Exceeds(c.switches_per_min, b.switches_per_min, 125)
       \/ c.micro_ipus_per_min * 100 > b.micro_ipus_per_min * 125

\* C15: compute_delta_report marks the report failed, with an entry in failures for
\* each violated rule, exactly when a guardrail rule is violated by an easy-tier
\* item, and failed = false otherwise.
C15_FailedIffGuardrailViolated ==
    report # <<>> =>
        /\ "failed" \in DOMAIN report
        /\ "failures" \in DOMAIN report
        /\ report.failed = GuardrailViolated(delta_args.baseline, delta_args.current)
        /\ report.failed = (report.failures # {})

(***************************************************************************)
(*                        The tune command: tune.run                       *)
(***************************************************************************)
\* tune._grid_candidates returns four parameter sets.
GridCandidates == 4

\* len(params_list), line 159
NumCandidates(args) == IF args.grid THEN GridCandidates ELSE 1

\* The keyword parameters of scorecard.write_scorecard.
WriteScorecardParams == {"path_json", "path_csv", "rows", "summary"}

\* The arguments of the call of lines 166-172: four by position and metadata=.
WriteScorecardCall == {"path_json", "path_csv", "rows", "summary", "metadata"}

InitTune ==
    /\ PipeIdle /\ DecodeIdle
    /\ FusionIdle /\ F1Idle /\ DeltaIdle /\ HarnessIdle /\ CacheIdle /\ IpuIdle /\ ResampleIdle /\ RunIdle
    /\ TuneIdle

\* run, lines 137-161: ConfigError without --manifest/--suite or without
\* --baseline; else the baseline scorecard is read and the loop is entered.
TuneStart(has_manifest, has_baseline, grid, b) ==
    /\ tune_pc = "idle"
    /\ tune_args' = [manifest |-> has_manifest, baseline_given |-> has_baseline,
                     grid |-> grid, baseline |-> b, rows |-> <<>>]
    /\ tune_pc' = IF has_manifest /\ has_baseline THEN "evaluate" ELSE "ConfigError"
    /\ UNCHANGED <<tune_index, written, first_failure>>
    /\ UNCHANGED outsideTune

\* line 165: evaluate_manifest returns the rows of candidate tune_index.
TuneEvaluate(c) ==
    /\ tune_pc = "evaluate"
    /\ tune_index < NumCandidates(tune_args)
    /\ tune_args' = [tune_args EXCEPT !.rows = Append(@, c)]
    /\ tune_pc' = "write_scorecard"
    /\ UNCHANGED <<tune_index, written, first_failure>>
    /\ UNCHANGED outsideTune

\* lines 166-172: write_scorecard(..., metadata=...). write_scorecard has no
\* parameter metadata, so the call raises TypeError before anything is written and
\* run ends with it; lines 174-203 (the delta report, first_failure, the
\* leaderboard, PipelineError) are not reached.
TuneWriteScorecard ==
    /\ tune_pc = "write_scorecard"
    /\ IF WriteScorecardCall \subseteq WriteScorecardParams
       THEN /\ written' = written \cup {<<tune_index, "scorecard">>}
            /\ tune_pc' = "delta_report"
       ELSE /\ written' = written
            /\ tune_pc' = "TypeError"
    /\ UNCHANGED <<tune_args, tune_index, first_failure>>
    /\ UNCHANGED outsideTune

NextTune ==
    \/ \E m \in BOOLEAN : \E h \in BOOLEAN : \E g \in BOOLEAN : \E b \in BaselineRows :
          TuneStart(m, h, g, b)
    \/ \E c \in CurrentRows : TuneEvaluate(c)
    \/ TuneWriteScorecard

SpecTune == InitTune /\ [][NextTune]_vars

(***************************************************************************)
(*                         Properties of tune.run                          *)
(***************************************************************************)
\* run has ended after entering the candidate loop.
TuneEnded == tune_pc \in {"returned", "PipelineError", "TypeError"}

\* C16: when the tune command ends, every candidate has been evaluated and has its
\* scorecard and delta report written, and it ends with PipelineError when a
\* candidate violates the guardrails.
C16_ArtifactsBeforePipelineError ==
    TuneEnded =>
        /\ Len(tune_args.rows) = NumCandidates(tune_args)
        /\ \A i \in 0..(NumCandidates(tune_args) - 1) :
              {<<i, "scorecard">>, <<i, "delta_report">>} \subseteq written
        /\ (\E i \in 1..Len(tune_args.rows) :
               GuardrailViolated(tune_args.baseline, tune_args.rows[i]))
              => tune_pc = "PipelineError"

(***************************************************************************)
(*            Evaluation harness: evaluate_manifest, evaluate_item         *)
(***************************************************************************)
\* The five steps of an item, in the order evaluate_item adds them.
ITEM_STEPS == <<"load_data", "run_inference", "export_ipus", "compute_metrics", "write_scorecard">>

\* The same names in sorted() order (within one item the prefix "<id>." is common).
SortedItemSteps == <<"compute_metrics", "export_ipus", "load_data", "run_inference", "write_scorecard">>

StepIndex(s) == CHOOSE i \in 1..Len(ITEM_STEPS) : ITEM_STEPS[i] = s

\* deps= of pipeline.add, harness.py:193-197
ItemDeps(s) == IF StepIndex(s) = 1 THEN <<>> ELSE <<ITEM_STEPS[StepIndex(s) - 1]>>

ItemIds == <<"a", "b">>

ItemTiers == <<"easy", "hard">>

Rank(seq, x) == CHOOSE i \in 1..Len(seq) : seq[i] = x

\* A manifest item; fails is the position in ITEM_STEPS of the step whose function
\* raises for this item (1: the audio or reference file is missing), 0 for none.
Items ==
    {it \in [id : {ItemIds[i] : i \in 1..Len(ItemIds)},
             tier : {ItemTiers[i] : i \in 1..Len(ItemTiers)},
             fails : 0..Len(ITEM_STEPS)] :
        ~(it.tier = "hard" /\ it.id = "b")}

Manifests == UNION {[1..n -> Items] : n \in 0..MaxItems}

\* The sort key of harness.py:230, (tier, id), compared as tuples.
KeyLeq(x, y) ==
    \/ Rank(ItemTiers, x.tier) < Rank(ItemTiers, y.tier)
    \/ /\ x.tier = y.tier
       /\ Rank(ItemIds, x.id) <= Rank(ItemIds, y.id)

\* sorted(manifest, key=...): stable.
RECURSIVE InsertItem(_, _)
InsertItem(sorted, x) ==
    IF sorted = <<>> THEN <<x>>
    ELSE IF KeyLeq(sorted[Len(sorted)], x) THEN Append(sorted, x)
    ELSE Append(InsertItem(SubSeq(sorted, 1, Len(sorted) - 1), x), sorted[Len(sorted)])

RECURSIVE SortedManifest(_)
SortedManifest(m) ==
    IF m = <<>> THEN <<>>
    ELSE InsertItem(SortedManifest(SubSeq(m, 1, Len(m) - 1)), m[Len(m)])

\* The step names of the reporter: "<id>.<step>".
HarnessNames == {<<ItemIds[i], ITEM_STEPS[k]>> : i \in 1..Len(ItemIds), k \in 1..Len(ITEM_STEPS)}

\* ErrorHandlingConfig(mode="run", ...) of harness.py:226: max_failures keeps its
\* default None.
HarnessCfg == [mode |-> "run", max_failures |-> <<>>]

\* ErrorReporter.failures_count on the reporter shared by all items.
HFailuresCount == Cardinality({n \in HarnessNames : h_status[n] = "failed"})

\* Mutant of HCutoffReached: the shared reporter stops scheduling after one failure.
HCutoffReached_AfterOneFailure == HFailuresCount >= 1

\* pipeline.py:100-101 under the harness configuration.
HCutoffReached ==
    /\ HarnessCfg.mode = "run"
    /\ HarnessCfg.max_failures # <<>>
    /\ HFailuresCount >= HarnessCfg.max_failures[1]

\* The item being evaluated.
CurItem == manifest[h_item]

\* harness.py:166-183, the row of an item whose steps all returned (the metric
\* values themselves are those of boundary_f1 etc.; 1000 stands for them).
OkRow(item) ==
    [id |-> item.id, tier |-> item.tier, status |-> "ok",
     boundary_f1_20ms |-> 1000, boundary_f1_50ms |-> 1000,
     micro_ipus_per_min |-> 1000, switches_per_min |-> 1000]

\* harness.py:204-215
FailedRow(item) ==
    [id |-> item.id, tier |-> item.tier, status |-> "failed",
     boundary_f1_20ms |-> 0, boundary_f1_50ms |-> 0,
     micro_ipus_per_min |-> 0, switches_per_min |-> 0]

InitHarness ==
    /\ PipeIdle /\ DecodeIdle
    /\ FusionIdle /\ F1Idle /\ DeltaIdle /\ TuneIdle /\ CacheIdle /\ IpuIdle /\ ResampleIdle /\ RunIdle
    /\ HarnessIdle

\* evaluate_manifest, lines 224-230: one reporter, the manifest sorted.
EvaluateManifest(m) ==
    /\ h_pc = "idle"
    /\ manifest = <<>>
    /\ manifest' = SortedManifest(m)
    /\ h_status' = [n \in HarnessNames |-> "none"]
    /\ h_item' = 1
    /\ h_rows' = <<>>
    /\ h_ran' = <<>>
    /\ h_pc' = "item"
    /\ UNCHANGED <<h_remaining, h_decided, h_results, h_todo, h_progressed>>
    /\ UNCHANGED outsideHarness

\* evaluate_item up to the entry of Pipeline.run: five steps added, results = {},
\* remaining = all of them, executed_or_decided = {}.
ItemStart ==
    /\ h_pc = "item"
    /\ h_item <= Len(manifest)
    /\ h_remaining' = {ITEM_STEPS[k] : k \in 1..Len(ITEM_STEPS)}
    /\ h_decided' = {}
    /\ h_results' = {}
    /\ h_pc' = "while"
    /\ UNCHANGED <<manifest, h_status, h_item, h_todo, h_progressed, h_ran, h_rows>>
    /\ UNCHANGED outsideHarness

\* The loop head of Pipeline.run with steps remaining: under the cutoff every
\* remaining step without a status is marked skipped and the loop is left; else a
\* pass over sorted(list(remaining)) starts.
HWhilePass ==
    /\ h_pc = "while"
    /\ h_remaining # {}
    /\ h_progressed' = FALSE
    /\ IF HCutoffReached
       THEN /\ h_status' = [n \in HarnessNames |->
                              IF /\ n[1] = CurItem.id
                                 /\ n[2] \in h_remaining
                                 /\ h_status[n] = "none"
                              THEN "skipped" ELSE h_status[n]]
            /\ h_pc' = "return_item"
            /\ UNCHANGED h_todo
       ELSE /\ h_todo' = SelectSeq(SortedItemSteps, LAMBDA x : x \in h_remaining)
            /\ h_pc' = "for"
            /\ UNCHANGED h_status
    /\ UNCHANGED <<manifest, h_item, h_remaining, h_decided, h_results, h_ran, h_rows>>
    /\ UNCHANGED outsideHarness

\* while remaining: is false.
HWhileExit ==
    /\ h_pc = "while"
    /\ h_remaining = {}
    /\ h_pc' = "return_item"
    /\ UNCHANGED <<manifest, h_status, h_item, h_remaining, h_decided, h_results, h_todo,
                   h_progressed, h_ran, h_rows>>
    /\ UNCHANGED outsideHarness

HDepsDecided(s) == \A i \in 1..Len(ItemDeps(s)) : ItemDeps(s)[i] \in h_decided

\* The dependencies of s that reporter.ok() denies.
HBadDeps(s) ==
    {i \in 1..Len(ItemDeps(s)) : h_status[<<CurItem.id, ItemDeps(s)[i]>>] # "ok"}

HDecide(s) ==
    /\ h_remaining' = h_remaining \ {s}
    /\ h_decided' = h_decided \cup {s}
    /\ h_progressed' = TRUE
    /\ h_todo' = Tail(h_todo)

\* pipeline.py:112-113
HForContinue ==
    /\ h_pc = "for"
    /\ h_todo # <<>>
    /\ ~HDepsDecided(Head(h_todo))
    /\ h_todo' = Tail(h_todo)
    /\ UNCHANGED <<manifest, h_status, h_item, h_remaining, h_decided, h_results,
                   h_progressed, h_ran, h_rows, h_pc>>
    /\ UNCHANGED outsideHarness

\* pipeline.py:116-122
HForSkip ==
    /\ h_pc = "for"
    /\ h_todo # <<>>
    /\ HDepsDecided(Head(h_todo))
    /\ HBadDeps(Head(h_todo)) # {}
    /\ h_status' = [h_status EXCEPT ![<<CurItem.id, Head(h_todo)>>] = "skipped"]
    /\ HDecide(Head(h_todo))
    /\ UNCHANGED <<manifest, h_item, h_results, h_ran, h_rows, h_pc>>
    /\ UNCHANGED outsideHarness

\* pipeline.py:125-131: the step function returns.
HForRunOk ==
    /\ h_pc = "for"
    /\ h_todo # <<>>
    /\ HDepsDecided(Head(h_todo))
    /\ HBadDeps(Head(h_todo)) = {}
    /\ CurItem.fails # StepIndex(Head(h_todo))
    /\ h_ran' = Append(h_ran, <<h_item, Head(h_todo)>>)
    /\ h_results' = h_results \cup {Head(h_todo)}
    /\ h_status' = [h_status EXCEPT ![<<CurItem.id, Head(h_todo)>>] = "ok"]
    /\ HDecide(Head(h_todo))
    /\ UNCHANGED <<manifest, h_item, h_rows, h_pc>>
    /\ UNCHANGED outsideHarness

\* pipeline.py:125-131 with guards.py:33-36 in run mode: the step function raises,
\* the step is marked failed and the exception is suppressed.
HForRunRaise ==
    /\ h_pc = "for"
    /\ h_todo # <<>>
    /\ HDepsDecided(Head(h_todo))
    /\ HBadDeps(Head(h_todo)) = {}
    /\ CurItem.fails = StepIndex(Head(h_todo))
    /\ h_ran' = Append(h_ran, <<h_item, Head(h_todo)>>)
    /\ h_status' = [h_status EXCEPT ![<<CurItem.id, Head(h_todo)>>] = "failed"]
    /\ HDecide(Head(h_todo))
    /\ UNCHANGED <<manifest, h_item, h_results, h_rows, h_pc>>
    /\ UNCHANGED outsideHarness

\* The pass is over: back to the loop head, or RuntimeError when nothing was decided
\* (pipeline.py:133-139), which evaluate_manifest does not catch.
HForEnd ==
    /\ h_pc = "for"
    /\ h_todo = <<>>
    /\ h_pc' = IF h_progressed THEN "while" ELSE "RuntimeError"
    /\ UNCHANGED <<manifest, h_status, h_item, h_remaining, h_decided, h_results, h_todo,
                   h_progressed, h_ran, h_rows>>
    /\ UNCHANGED outsideHarness

\* harness.py:200-215 and 238: the row of the item is appended to results.
ItemReturn ==
    /\ h_pc = "return_item"
    /\ h_rows' = Append(h_rows, IF "write_scorecard" \in h_results
                                THEN OkRow(CurItem) ELSE FailedRow(CurItem))
    /\ h_item' = h_item + 1
    /\ h_pc' = "item"
    /\ UNCHANGED <<manifest, h_status, h_remaining, h_decided, h_results, h_todo,
                   h_progressed, h_ran>>
    /\ UNCHANGED outsideHarness

\* harness.py:239-240: the summary is written and results returned.
ManifestReturn ==
    /\ h_pc = "item"
    /\ h_item > Len(manifest)
    /\ h_pc' = "returned"
    /\ UNCHANGED <<manifest, h_status, h_item, h_remaining, h_decided, h_results, h_todo,
                   h_progressed, h_ran, h_rows>>
    /\ UNCHANGED outsideHarness

NextHarness ==
    \/ \E m \in Manifests : EvaluateManifest(m)
    \/ ItemStart
    \/ HWhilePass
    \/ HWhileExit
    \/ HForContinue
    \/ HForSkip
    \/ HForRunOk
    \/ HForRunRaise
    \/ HForEnd
    \/ ItemReturn
    \/ ManifestReturn

SpecHarness == InitHarness /\ [][NextHarness]_vars

(***************************************************************************)
(*                      Properties of the harness                          *)
(***************************************************************************)
\* The steps of item i whose function was called.
StepsRun(i) == {h_ran[k][2] : k \in {j \in 1..Len(h_ran) : h_ran[j][1] = i}}

\* The steps of an item up to and including the one that raises (all five when none
\* does).
StepsDue(item) ==
    {ITEM_STEPS[k] : k \in 1..(IF item.fails = 0 THEN Len(ITEM_STEPS) ELSE item.fails)}

\* C17: evaluate_manifest is never aborted and returns one row per manifest item,
\* in manifest order; an item with a failing step has the zeroed row with status
\* "failed" and none of its later steps is run; every other item has its five steps
\* run and its own row with status "ok".
C17_FailuresDoNotCascade ==
    /\ h_pc # "RuntimeError"
    /\ h_pc = "returned" =>
          /\ Len(h_rows) = Len(manifest)
          /\ \A i \in 1..Len(manifest) :
                /\ h_rows[i] = IF manifest[i].fails = 0
                               THEN OkRow(manifest[i]) ELSE FailedRow(manifest[i])
                /\ StepsRun(i) = StepsDue(manifest[i])

\* Two items with the same id: the first fails in load_data, the second does not
\* fail and has all of its steps run.
C17_Witness ==
    /\ h_pc = "returned"
    /\ Len(manifest) = 2
    /\ manifest[1].id = manifest[2].id
    /\ manifest[1].fails = 1
    /\ manifest[2].fails = 0
    /\ h_rows[1].status = "failed"
    /\ h_rows[1].boundary_f1_20ms = 0
    /\ h_rows[2].status = "ok"
    /\ StepsRun(2) = {ITEM_STEPS[k] : k \in 1..Len(ITEM_STEPS)}

(***************************************************************************)
(*              File cache: cache_get and cache_put on one key             *)
(***************************************************************************)
\* The evaluations (processes) that share the cache directory and compute the same
\* key, as compute_energy_rms_track does: cache_get, on a hit np.load, on a miss
\* compute and cache_put.
Evaluations == 1..NumEvaluations

\* cache_file is the state of <cache_dir>/<key>.npz: "absent", "partial" (created
\* and not yet completely written) or "complete".
InitCache ==
    /\ PipeIdle /\ DecodeIdle
    /\ FusionIdle /\ F1Idle /\ DeltaIdle /\ TuneIdle /\ HarnessIdle /\ IpuIdle /\ ResampleIdle /\ RunIdle
    /\ cache_file \in {"absent", "complete"}
    /\ cache_pc = [p \in Evaluations |-> "start"]
    /\ cache_got = [p \in Evaluations |-> <<>>]

\* cache_get: None without a cache directory, the path when npz_path.exists(), else
\* None. cache_got keeps what was returned: "None", or the state of the file whose
\* path was returned.
CacheGet(p, has_dir) ==
    /\ cache_pc[p] = "start"
    /\ cache_got' = [cache_got EXCEPT ![p] =
                        IF has_dir /\ cache_file # "absent" THEN <<cache_file>> ELSE <<"None">>]
    /\ cache_pc' = [cache_pc EXCEPT ![p] =
                        IF ~has_dir THEN "miss_nodir"
                        ELSE IF cache_file # "absent" THEN "hit" ELSE "miss"]
    /\ UNCHANGED cache_file
    /\ UNCHANGED outsideCache

\* energy.py:31-35: np.load(cached) of the returned path.
CacheLoad(p) ==
    /\ cache_pc[p] = "hit"
    /\ cache_pc' = [cache_pc EXCEPT ![p] =
                        IF cache_file = "complete" THEN "loaded" ELSE "load_failed"]
    /\ UNCHANGED <<cache_file, cache_got>>
    /\ UNCHANGED outsideCache

\* cache_put without a cache directory returns None (lines 41-42).
CachePutNoDir(p) ==
    /\ cache_pc[p] = "miss_nodir"
    /\ cache_pc' = [cache_pc EXCEPT ![p] = "done"]
    /\ UNCHANGED <<cache_file, cache_got>>
    /\ UNCHANGED outsideCache

\* cache_put, line 45: np.savez_compressed(npz_path, ...) opens npz_path itself for
\* writing, which creates or truncates the file under its final name.
CachePutOpen(p) ==
    /\ cache_pc[p] = "miss"
    /\ cache_file' = "partial"
    /\ cache_pc' = [cache_pc EXCEPT ![p] = "writing"]
    /\ UNCHANGED cache_got
    /\ UNCHANGED outsideCache

\* np.savez_compressed has written the last member and closed the file; the file is
\* complete unless another evaluation is still writing it.
CachePutClose(p) ==
    /\ cache_pc[p] = "writing"
    /\ cache_file' = IF \E q \in Evaluations \ {p} : cache_pc[q] = "writing"
                     THEN "partial" ELSE "complete"
    /\ cache_pc' = [cache_pc EXCEPT ![p] = "done"]
    /\ UNCHANGED cache_got
    /\ UNCHANGED outsideCache

\* The evaluation goes on to its next track with the same key (a second command on
\* the same audio).
CacheNext(p) ==
    /\ cache_pc[p] \in {"loaded", "load_failed", "done"}
    /\ cache_pc' = [cache_pc EXCEPT ![p] = "start"]
    /\ cache_got' = [cache_got EXCEPT ![p] = <<>>]
    /\ UNCHANGED cache_file
    /\ UNCHANGED outsideCache

NextCache ==
    \E p \in Evaluations :
        \/ \E has_dir \in BOOLEAN : CacheGet(p, has_dir)
        \/ CacheLoad(p)
        \/ CachePutNoDir(p)
        \/ CachePutOpen(p)
        \/ CachePutClose(p)
        \/ CacheNext(p)

SpecCache == InitCache /\ [][NextCache]_vars

(***************************************************************************)
(*                        Properties of the cache                          *)
(***************************************************************************)
\* C19: cache_get returns None or the path of a completely written file, never the
\* path of a partially written one.
C19_CacheGetNeverSeesPartialFile ==
    \A p \in Evaluations : cache_got[p] # <<"partial">>

(***************************************************************************)
(*                       IPU extraction: extract_ipus                      *)
(***************************************************************************)
\* Times and durations are in milliseconds; the hop is 10 ms (canonical) or 20 ms.
IpuHops == {10, 20}

\* min_duration_s: none, one canonical frame, between one and two, two, three.
IpuMinDurations == {0, 10, 15, 20, 30}

IpuLabels == {"A", "B", "SIL"}

IpuTargets == {"A", "B"}

IpuStateSeqs == UNION {[1..n -> IpuLabels] : n \in 0..MaxIpuFrames}

\* TimeBase.frame_to_time
FrameToTime(hop, frame_index) == frame_index * hop

\* ipu.Segment
Segment(start_time, end_time, label) ==
    [start_time |-> start_time, end_time |-> end_time, label |-> label]

\* Mutant of DurationReached: a run of exactly min_duration_s is dropped.
DurationReached_Strict(start, end, hop, min_duration) == (end - start) * hop > min_duration

\* ipu.py:28-29 and 40-41: dur = (end - start) * hop_s; dur >= min_duration_s
DurationReached(start, end, hop, min_duration) == (end - start) * hop >= min_duration

\* ipu.py:27-36 and 39-48: the run start..end-1 is closed.
CloseRun(segs, start, end, a) ==
    IF DurationReached(start, end, a.hop, a.min_duration)
    THEN Append(segs, Segment(FrameToTime(a.hop, start), FrameToTime(a.hop, end), a.target))
    ELSE segs

\* The loop of lines 21-37 from frame idx (0-based) on, then lines 38-49; start is
\* <<>> for None.
RECURSIVE ExtractFrom(_, _, _, _)
ExtractFrom(a, idx, start, segs) ==
    IF idx = Len(a.states)
    THEN IF start # <<>> THEN CloseRun(segs, start[1], Len(a.states), a) ELSE segs
    ELSE IF a.states[idx + 1] = a.target
         THEN ExtractFrom(a, idx + 1, IF start = <<>> THEN <<idx>> ELSE start, segs)
         ELSE IF start # <<>>
              THEN ExtractFrom(a, idx + 1, <<>>, CloseRun(segs, start[1], idx, a))
              ELSE ExtractFrom(a, idx + 1, <<>>, segs)

ExtractIpus(a) == ExtractFrom(a, 0, <<>>, <<>>)

InitIpu ==
    /\ PipeIdle /\ DecodeIdle
    /\ FusionIdle /\ F1Idle /\ DeltaIdle /\ TuneIdle /\ HarnessIdle /\ CacheIdle
    /\ IpuIdle /\ ResampleIdle /\ RunIdle

\* extract_ipus(states, timebase, target_label, min_duration_s=...) is called.
IpuCall(states, hop, target, min_duration) ==
    /\ ipu_args = <<>>
    /\ ipu_args' = [states |-> states, hop |-> hop, target |-> target,
                    min_duration |-> min_duration, returned |-> FALSE]
    /\ segments' = <<>>
    /\ UNCHANGED outsideIpu

\* extract_ipus returns.
IpuReturn ==
    /\ ipu_args # <<>>
    /\ ipu_args.returned = FALSE
    /\ segments' = ExtractIpus(ipu_args)
    /\ ipu_args' = [ipu_args EXCEPT !.returned = TRUE]
    /\ UNCHANGED outsideIpu

NextIpu ==
    \/ \E states \in IpuStateSeqs : \E hop \in IpuHops : \E target \in IpuTargets :
          \E min_duration \in IpuMinDurations : IpuCall(states, hop, target, min_duration)
    \/ IpuReturn

SpecIpu == InitIpu /\ [][NextIpu]_vars

(***************************************************************************)
(*                       Properties of extract_ipus                        *)
(***************************************************************************)
\* The maximal contiguous runs of the target label, as <<first, last>> frame indices
\* (0-based).
TargetRuns(a) ==
    {r \in (0..(Len(a.states) - 1)) \X (0..(Len(a.states) - 1)) :
        /\ r[1] <= r[2]
        /\ \A i \in r[1]..r[2] : a.states[i + 1] = a.target
        /\ r[1] = 0 \/ a.states[r[1]] # a.target
        /\ r[2] = Len(a.states) - 1 \/ a.states[r[2] + 2] # a.target}

\* The runs whose length times hop is at least min_duration_s.
LongRuns(a) == {r \in TargetRuns(a) : (r[2] - r[1] + 1) * a.hop >= a.min_duration}

\* C20: extract_ipus returns, in increasing time order, exactly one Segment for each
\* maximal run of the target label whose length times hop is >= min_duration_s,
\* from first frame * hop to (last frame + 1) * hop; the segments do not overlap
\* and each ends after it starts.
C20_OneSegmentPerLongRun ==
    (ipu_args # <<>> /\ ipu_args.returned) =>
        /\ Len(segments) = Cardinality(LongRuns(ipu_args))
        /\ \A r \in LongRuns(ipu_args) :
              segments[1 + Cardinality({q \in LongRuns(ipu_args) : q[1] < r[1]})]
                 = [start_time |-> r[1] * ipu_args.hop,
                    end_time |-> (r[2] + 1) * ipu_args.hop,
                    label |-> ipu_args.target]
        /\ \A k \in 1..Len(segments) : segments[k].end_time > segments[k].start_time
        /\ \A k \in 1..(Len(segments) - 1) : segments[k].end_time <= segments[k + 1].start_time

\* A short run is dropped, a run of exactly min_duration_s is kept, and the run that
\* reaches the end of the sequence is returned.
C20_Witness ==
    /\ ipu_args # <<>>
    /\ ipu_args.returned
    /\ TargetRuns(ipu_args) \ LongRuns(ipu_args) # {}
    /\ \E r \in LongRuns(ipu_args) :
          /\ r[2] = Len(ipu_args.states) - 1
          /\ (r[2] - r[1] + 1) * ipu_args.hop = ipu_args.min_duration
    /\ Len(segments) = 1
    /\ segments[1].end_time = Len(ipu_args.states) * ipu_args.hop

(***************************************************************************)
(*              Resampling: upsample_hold_last and downsample              *)
(***************************************************************************)
\* Array values are binary floating-point numbers with round-to-nearest-even, as the
\* float64 of the source, at a precision of FloatBits bits and with FloatExps
\* binades above the lowest: the finite values are m * 2^e for m < 2^FloatBits and
\* e <= FloatExps, and a result beyond the largest of them is PosInf.
RECURSIVE Pow2(_)
Pow2(n) == IF n = 0 THEN 1 ELSE 2 * Pow2(n - 1)

\* np.inf
PosInf == 1000000

MaxFinite == (Pow2(FloatBits) - 1) * Pow2(FloatExps)

\* The exponent of the binade of n / d: the least e with n / d < 2^(FloatBits + e).
RECURSIVE BinadeFrom(_, _, _)
BinadeFrom(n, d, e) ==
    IF n < Pow2(FloatBits + e) * d THEN e ELSE BinadeFrom(n, d, e + 1)

\* n / d (n >= 0, d > 0) rounded to the nearest float, ties to the even mantissa.
FRound(n, d) ==
    LET e == BinadeFrom(n, d, 0)
        u == Pow2(e) * d
        m == n \div u
        rem == n - m * u
        up == \/ 2 * rem > u
              \/ 2 * rem = u /\ m % 2 = 1
        r == (IF up THEN m + 1 ELSE m) * Pow2(e)
    IN  IF r > MaxFinite THEN PosInf ELSE r

\* Float addition and division by a count.
FAdd(a, b) == IF a = PosInf \/ b = PosInf THEN PosInf ELSE FRound(a + b, 1)

FDiv(a, k) == IF a = PosInf THEN PosInf ELSE FRound(a, k)

\* np.add.reduce over fewer than eight values: from the left.
RECURSIVE FSum(_)
FSum(vals) ==
    IF Len(vals) = 1 THEN vals[1]
    ELSE FAdd(FSum(SubSeq(vals, 1, Len(vals) - 1)), vals[Len(vals)])

\* ndarray.mean over one block: the sum divided by the count.
FMean(vals) == FDiv(FSum(vals), Len(vals))

\* ndarray.max over one block.
FMax(vals) == CHOOSE v \in {vals[i] : i \in 1..Len(vals)} : \A i \in 1..Len(vals) : vals[i] <= v

\* resample._validate_factor on hops in milliseconds: <<>> for ValueError.
ValidateFactor(src_hop, target_hop) ==
    IF src_hop <= 0 \/ target_hop <= 0 THEN <<>>
    ELSE IF src_hop % target_hop # 0 THEN <<>>
    ELSE <<src_hop \div target_hop>>

\* np.repeat(arr, factor) and np.repeat(arr, factor, axis=0)
Repeat(v, factor) == [i \in 1..(Len(v) * factor) |-> v[((i - 1) \div factor) + 1]]

\* upsample_hold_last: arrays are [ndim, cols, v], v the sequence of the entries along
\* axis 0, each a tuple of cols values (one value for a 1-D array).
UpsampleHoldLast(x, src_hop, target_hop) ==
    LET factor == ValidateFactor(src_hop, target_hop)
    IN  IF factor = <<>> THEN [raised |-> TRUE]
        ELSE IF factor[1] = 1 THEN [raised |-> FALSE, values |-> x]
        ELSE IF x.ndim \in {1, 2}
             THEN [raised |-> FALSE, values |-> [x EXCEPT !.v = Repeat(x.v, factor[1])]]
        ELSE [raised |-> TRUE]

\* reshaped[j]: the j-th block of factor consecutive entries.
Block(v, factor, j) == SubSeq(v, (j - 1) * factor + 1, j * factor)

\* resample.py:122-125: reshaped.mean(axis=1) or reshaped.max(axis=1), one block.
Aggregate(vals, agg) ==
    IF agg = "mean" THEN FMean(vals) ELSE FMax(vals)

\* downsample
Downsample(x, src_hop, target_hop, agg) ==
    LET factor == ValidateFactor(target_hop, src_hop)
    IN  IF factor = <<>> THEN [raised |-> TRUE]
        ELSE IF factor[1] = 1 THEN [raised |-> FALSE, values |-> x]
        ELSE IF x.ndim \notin {1, 2} THEN [raised |-> TRUE]
        ELSE IF Len(x.v) % factor[1] # 0 THEN [raised |-> TRUE]
        ELSE IF agg \notin {"mean", "max"} THEN [raised |-> TRUE]
        ELSE LET new_len == Len(x.v) \div factor[1]
             IN  [raised |-> FALSE,
                  values |-> [x EXCEPT !.v =
                     [j \in 1..new_len |->
                        [c \in 1..x.cols |->
                            Aggregate([i \in 1..factor[1] |->
                                         Block(x.v, factor[1], j)[i][c]], agg)]]]]

\* The sample values: zero, the floats of the binade with unit spacing, and the
\* largest finite float.
Samples == {0, MaxFinite} \cup (Pow2(FloatBits - 1)..(Pow2(FloatBits) - 1))

\* 1-D arrays of up to MaxResampleLen samples; 2-D arrays of up to MaxResampleLen
\* rows of two columns built from two samples; and one 3-D array.
Arrays ==
    {[ndim |-> 1, cols |-> 1, v |-> v] :
        v \in UNION {[1..n -> {<<a>> : a \in Samples}] : n \in 0..MaxResampleLen}}
    \cup
    {[ndim |-> 2, cols |-> 2, v |-> v] :
        v \in UNION {[1..n -> {<<Pow2(FloatBits) - 1, 0>>, <<Pow2(FloatBits) - 2, MaxFinite>>}] :
                        n \in 0..MaxResampleLen}}
    \cup
    {[ndim |-> 3, cols |-> 0, v |-> <<>>]}

\* The hops in milliseconds: the fine hop is canonical, the coarse hop a multiple of
\* it, or 15 ms, or 0.
CoarseHops == {10 * k : k \in 1..MaxFactor} \cup {0, 15}

InitResample ==
    /\ PipeIdle /\ DecodeIdle
    /\ FusionIdle /\ F1Idle /\ DeltaIdle /\ TuneIdle /\ HarnessIdle /\ CacheIdle /\ IpuIdle
    /\ ResampleIdle /\ RunIdle

\* The round trip is set up: an array on the coarse hop.
ResampleCall(x, coarse, agg) ==
    /\ rs_args = <<>>
    /\ rs_args' = [x |-> x, coarse |-> coarse, fine |-> 10, agg |-> agg]
    /\ UNCHANGED <<rs_up, rs_out>>
    /\ UNCHANGED outsideResample

\* upsample_hold_last(x, coarse, fine)
UpsampleStep ==
    /\ rs_args # <<>>
    /\ rs_up = <<>>
    /\ rs_up' = UpsampleHoldLast(rs_args.x, rs_args.coarse, rs_args.fine)
    /\ UNCHANGED <<rs_args, rs_out>>
    /\ UNCHANGED outsideResample

\* downsample(upsampled, fine, coarse, agg)
DownsampleStep ==
    /\ rs_up # <<>>
    /\ ~rs_up.raised
    /\ rs_out = <<>>
    /\ rs_out' = Downsample(rs_up.values, rs_args.fine, rs_args.coarse, rs_args.agg)
    /\ UNCHANGED <<rs_args, rs_up>>
    /\ UNCHANGED outsideResample

NextResample ==
    \/ \E x \in Arrays : \E coarse \in CoarseHops : \E agg \in {"mean", "max", "sum"} :
          ResampleCall(x, coarse, agg)
    \/ UpsampleStep
    \/ DownsampleStep

SpecResample == InitResample /\ [][NextResample]_vars

(***************************************************************************)
(*                       Properties of resampling                          *)
(***************************************************************************)
\* The call is a round trip of a 1-D or 2-D array by an integer factor k >= 1 with
\* aggregation mean or max.
RoundTripCase ==
    /\ rs_args # <<>>
    /\ rs_args.x.ndim \in {1, 2}
    /\ rs_args.coarse > 0
    /\ rs_args.coarse % rs_args.fine = 0
    /\ rs_args.agg \in {"mean", "max"}

\* C21: downsampling the zero-order-hold upsampling of x by k with mean (and
\* likewise max) returns x, and the upsampled array has k times the length of x.
C21_RoundTripReturnsInput ==
    RoundTripCase =>
        /\ rs_up # <<>> =>
              /\ ~rs_up.raised
              /\ Len(rs_up.values.v) = (rs_args.coarse \div rs_args.fine) * Len(rs_args.x.v)
        /\ rs_out # <<>> =>
              /\ ~rs_out.raised
              /\ rs_out.values = rs_args.x

\* What the code keeps of it: the length of the upsampled array, and the round trip
\* with max.
RoundTripWithMax ==
    RoundTripCase =>
        /\ rs_up # <<>> =>
              /\ ~rs_up.raised
              /\ Len(rs_up.values.v) = (rs_args.coarse \div rs_args.fine) * Len(rs_args.x.v)
        /\ rs_out # <<>> =>
              /\ ~rs_out.raised
              /\ rs_args.agg = "max" => rs_out.values = rs_args.x

(***************************************************************************)
(*        viterbi_decode on small state spaces: the optimum itself         *)
(***************************************************************************)
\* The calls whose expanded state space is small enough to enumerate every state
\* sequence: minimum durations of one frame with any transition and initial
\* argument, and the override that names A and B only.
ViterbiConfigs ==
    {c \in DecodeConfigs :
        c.min_durations \in {<<[s \in StateSet |-> 1]>>,
                             <<[s \in {"A", "B"} |-> IF s = "A" THEN 2 ELSE 0]>>}}

InitViterbi == InitDecodeWith(ViterbiConfigs)

NextViterbi ==
    \/ DecodeCall
    \/ \E row \in Rows : ViterbiFirst(row)
    \/ \E row \in Rows : Len(scores) < MaxViterbiT /\ ViterbiStep(row)
    \/ ViterbiReturn

SpecViterbi == InitViterbi /\ [][NextViterbi]_vars

\* init[s_1] + E[1, s_1] + sum over t >= 2 of (A[s_(t-1), s_t] + E[t, s_t]) for a
\* sequence of expanded-state indices, accumulated up to frame t.
RECURSIVE TotalScore(_, _)
TotalScore(seq, t) ==
    IF t = 1 THEN Plus(xinit[seq[1]], ExpandRow(scores[1], xstates)[seq[1]])
    ELSE Plus(Plus(TotalScore(seq, t - 1), xtrans[seq[t - 1]][seq[t]]),
              ExpandRow(scores[t], xstates)[seq[t]])

\* C22: viterbi_decode returns a path of exactly T states whose total score is the
\* maximum over all state sequences of length T, and path_score is that maximum.
C22_PathIsOptimal ==
    dpc = "done" =>
        LET T == Len(scores) IN
        /\ Len(path_idx) = T
        /\ Len(path) = T
        /\ path_score[1] = TotalScore(path_idx, T)
        /\ \A seq \in [1..T -> 1..Len(xstates)] : TotalScore(seq, T) <= path_score[1]

\* The best path changes state, and on some frame it is not in the state that the
\* frame's scores favour.
C22_Witness ==
    /\ dpc = "done"
    /\ Len(path) >= 3
    /\ path_score[1] # NegInf
    /\ \E t \in 1..(Len(path) - 1) : path[t] # path[t + 1]
    /\ \E t \in 1..Len(path) : \E s \in StateSet : scores[t][s] > scores[t][path[t]]

(***************************************************************************)
(*      decode_with_constraints under the minimum durations of the tests   *)
(***************************************************************************)
\* tests/test_decoder_constraints.py:21-26 and tests/decode/test_decoder.py:28-30:
\* the defaults with A lowered to two frames, and with A and B lowered to two.
TestMinDurations ==
    {<<[DefaultMinDurations EXCEPT !["A"] = 2]>>,
     <<[DefaultMinDurations EXCEPT !["A"] = 2, !["B"] = 2]>>}

\* The calls: the defaults, the maps of the tests and one-frame durations, each
\* under either transition argument.
MinDurConfigs ==
    [min_durations : {<<>>} \cup TestMinDurations, tuning : TuningChoices, initial : {<<>>}]
        \cup [min_durations : {<<[s \in StateSet |-> 1]>>}, tuning : TuningChoices,
              initial : {<<>>}]

\* tests/test_decoder_constraints.py:21-23: np.zeros with one entry raised, 8.0
\* for a speaker and 5.0 for SIL (16 and 10 half-units), and the all-zero row.
StrongRow(s, v) == [x \in StateSet |-> IF x = s THEN v ELSE 0]

TestRows ==
    {StrongRow("A", 16), StrongRow("B", 16), StrongRow("SIL", 10), StrongRow("SIL", 0)}

InitMinDur == InitDecodeWith(MinDurConfigs)

NextMinDur ==
    \/ DecodeCall
    \/ \E row \in TestRows : ViterbiFirst(row)
    \/ \E row \in TestRows : Len(scores) < MaxT /\ ViterbiStep(row)
    \/ ViterbiReturn

SpecMinDur == InitMinDur /\ [][NextMinDur]_vars

\* The call of test_min_duration_expansion_blocks_single_frame_segments.
BlipCase ==
    /\ dcfg.min_durations = <<[DefaultMinDurations EXCEPT !["A"] = 2]>>
    /\ scores = <<StrongRow("A", 16), StrongRow("SIL", 10)>>

\* C23: in a path decoded with minimum durations d, every run that is followed by
\* a different state has length >= d_s; with T = 2, A favoured on the first frame,
\* SIL on the second and d_A = 2 the path is [A, A].
C23_StateNotLeftBeforeMinDuration ==
    dpc = "done" =>
        /\ \A t \in 1..(Len(path) - 1) :
              path[t] # path[t + 1] =>
                  /\ t >= GivenDurations[path[t]]
                  /\ \A k \in (t - GivenDurations[path[t]] + 1)..t : path[k] = path[t]
        /\ BlipCase => path = <<"A", "A">>

\* The first frame favours A and the second SIL; the path stays in A for the two
\* frames of its minimum and leaves it on the third.
C23_Witness ==
    /\ dpc = "done"
    /\ Len(path) >= 3
    /\ SubSeq(scores, 1, 2) = <<StrongRow("A", 16), StrongRow("SIL", 10)>>
    /\ GivenDurations["A"] = 2
    /\ SubSeq(path, 1, 2) = <<"A", "A">>
    /\ path[3] # "A"

\* The chain length max(1, d_s) of a base state under the minimum durations d of
\* the call.
ChainLength(s) == IF GivenDurations[s] > 1 THEN GivenDurations[s] ELSE 1

RECURSIVE SumChainLengths(_)
SumChainLengths(S) ==
    IF S = {} THEN 0
    ELSE LET s == CHOOSE x \in S : TRUE IN ChainLength(s) + SumChainLengths(S \ {s})

\* C24: expand_state_space produces sum over s of max(1, d_s) expanded states, the
\* sub-states 0..d_s-1 of every base state; inside a chain the only finite entry is
\* sub_k -> sub_(k+1) at cost 0; the last sub-state of x has a self-loop at cost 0
\* and enters the first sub-state of each y at base_transition[x][y]; every other
\* entry is -inf; an expanded index collapses to its base label.
C24_ExpandedSpaceStructure ==
    dpc # "idle" =>
        LET n == Len(xstates) IN
        /\ n = SumChainLengths(StateSet)
        /\ {xstates[i] : i \in 1..n}
              = {e \in StateSet \X (0..(n - 1)) : e[2] < ChainLength(e[1])}
        /\ \A i, j \in 1..n :
              LET x == xstates[i][1]
                  k == xstates[i][2]
                  y == xstates[j][1]
                  l == xstates[j][2]
              IN  IF k < ChainLength(x) - 1
                  THEN IF x = y /\ l = k + 1
                       THEN j = i + 1 /\ xtrans[i][j] = 0
                       ELSE xtrans[i][j] = NegInf
                  ELSE IF j = i THEN xtrans[i][j] = 0
                  ELSE IF l = 0 THEN xtrans[i][j] = base_trans[x][y]
                  ELSE xtrans[i][j] = NegInf
        /\ dpc = "done" =>
              \A t \in 1..Len(path) : path[t] = xstates[path_idx[t]][1]

\* A decoded path walks a chain of three sub-states to its end and then enters
\* another base state.
C24_Witness ==
    /\ dpc = "done"
    /\ \E t \in 1..(Len(path) - 1) :
          /\ xstates[path_idx[t]][2] = 2
          /\ path[t + 1] # path[t]
          /\ xstates[path_idx[t + 1]][2] = 0
          /\ xtrans[path_idx[t]][path_idx[t + 1]] = base_trans[path[t]][path[t + 1]]

\* The number of sub-states that the expanded space of the call holds for s.
ChainOf(s) == Cardinality({i \in 1..Len(xstates) : xstates[i][1] = s})

\* C25: the min_durations argument overrides only the states it names; a state
\* absent from the given mapping keeps its default minimum duration.
C25_AbsentStatesKeepDefaults ==
    dpc # "idle" =>
        \A s \in StateSet :
            LET named == dcfg.min_durations # <<>> /\ s \in DOMAIN dcfg.min_durations[1]
                d == IF named THEN dcfg.min_durations[1][s] ELSE DefaultMinDurations[s]
            IN  ChainOf(s) = IF d > 1 THEN d ELSE 1

(***************************************************************************)
(*        decode_with_constraints when A and B score alike on every frame  *)
(***************************************************************************)
\* Score rows that give A and B the same value: no state favoured, A and B
\* favoured together, or one of SIL, OVL and LEAK favoured.
TieRows == {r \in Rows : r["A"] = r["B"]}

InitTie == InitDecodeWith({[min_durations |-> <<>>, tuning |-> <<>>, initial |-> <<>>]})

NextTie ==
    \/ DecodeCall
    \/ \E row \in TieRows : ViterbiFirst(row)
    \/ \E row \in TieRows : Len(scores) < MaxT /\ ViterbiStep(row)
    \/ ViterbiReturn

SpecTie == InitTie /\ [][NextTie]_vars

\* C26: when the A and B scores are equal on every frame and the default
\* transitions, durations and initial scores are used, the decoded path holds no B.
C26_TieNeverDecodesB ==
    (dpc = "done" /\ AllDefaults /\ \A t \in 1..Len(scores) : scores[t]["A"] = scores[t]["B"])
        => \A t \in 1..Len(path) : path[t] # "B"

\* Frames that favour A and B alike over the other states are labelled A, between
\* frames labelled SIL.
C26_Witness ==
    /\ dpc = "done"
    /\ AllDefaults
    /\ \A t \in 1..Len(scores) : scores[t]["A"] = scores[t]["B"]
    /\ \E t \in 2..Len(path) :
          /\ path[t] = "A"
          /\ path[t - 1] = "SIL"
          /\ scores[t]["A"] > scores[t]["SIL"]

(***************************************************************************)
(*            Pipeline.run: the result map and termination                 *)
(***************************************************************************)
\* C27: when Pipeline.run returns, its result map holds exactly the steps whose
\* status is OK, each mapped to the value its function returned; FAILED and SKIPPED
\* steps are absent from it.
C27_ResultsAreTheOkSteps ==
    pc = "returned" =>
        /\ DOMAIN results = {n \in Names : status[n] = "ok"}
        /\ DOMAIN results \subseteq DOMAIN steps
        /\ \A n \in DOMAIN results : results[n] = FnReturn(n)
        /\ \A n \in DOMAIN steps : status[n] \in {"failed", "skipped"} => n \notin DOMAIN results

\* A run returned with one step OK, one FAILED and one SKIPPED.
C27_Witness ==
    /\ pc = "returned"
    /\ \E a, b, c \in DOMAIN steps :
          /\ status[a] = "ok" /\ status[b] = "failed" /\ status[c] = "skipped"
          /\ DOMAIN results = {a}
          /\ results[a] = FnReturn(a)

\* One step of run() once it has been entered. The code is single-threaded and
\* every step function terminates, so a run that can take a step takes it.
RunStep ==
    \/ WhileExit
    \/ WhileCutoff
    \/ WhilePass
    \/ ForContinue
    \/ ForSkip
    \/ ForRunOk
    \/ ForRunRaise
    \/ ForEnd
    \/ ForNoProgress

SpecPipeLive == InitPipe /\ [][NextPipe]_vars /\ WF_vars(RunStep)

\* A pass starts with progressed false, sets it only when it takes a step out of
\* remaining, and flows back to the loop head only with progressed set; otherwise
\* the run ends: the loop condition fails, the cutoff breaks, or an exception
\* leaves run().
PassDecidesOrEnds ==
    /\ (pc = "while" /\ pc' = "for") => ~progressed'
    /\ (pc = "for" /\ pc' = "for") =>
          /\ remaining' \subseteq remaining
          /\ (progressed' /\ ~progressed) => remaining' # remaining
          /\ progressed => progressed'
    /\ (pc = "for" /\ pc' = "while") => progressed /\ remaining' = remaining
    /\ (pc = "for" /\ pc' \notin {"for", "while"}) =>
          pc' \in {"raised_step", "raised_noprogress"}
    /\ (pc = "while" /\ pc' \notin {"while", "for"}) =>
          pc' = "returned" /\ (remaining = {} \/ CutoffReached)

\* How often the function of step n was executed.
TimesRun(n) == Cardinality({i \in 1..Len(ran) : ran[i] = n})

\* On a normal return in run mode every registered step has one of the three
\* statuses, one record unless it is OK, and was executed at most once.
ReturnedDecided ==
    (pc = "returned" /\ cfg.mode = "run") =>
        \A n \in DOMAIN steps :
            /\ status[n] \in {"ok", "failed", "skipped"}
            /\ TimesRun(n) <= 1
            /\ Cardinality({i \in 1..Len(records) : records[i].step_name = n})
                  = IF status[n] = "ok" THEN 0 ELSE 1
            /\ status[n] \in {"ok", "failed"} <=> TimesRun(n) = 1

\* C28: Pipeline.run always terminates when every step function terminates: each
\* pass of its loop decides at least one more step or ends the run, and on a
\* normal return in run mode with a fresh reporter every registered step has
\* exactly one status among OK, FAILED and SKIPPED and was executed at most once.
C28_RunTerminates ==
    /\ (pc \in {"while", "for"}) ~> Ended
    /\ [][PassDecidesOrEnds]_vars
    /\ []ReturnedDecided

\* A run of two passes returned: A waits for B in the first pass and is executed
\* in the second.
C28_Witness ==
    /\ pc = "returned"
    /\ cfg.mode = "run"
    /\ "A" \in DOMAIN steps /\ steps["A"].deps = <<"B">>
    /\ ran = <<"B", "A">>
    /\ status["A"] = "ok"

(***************************************************************************)
(*                 metrics.rapid_alternations on decoded paths             *)
(***************************************************************************)
\* Mutant of IsAlternation: the middle frame need not differ from the first.
IsAlternation_AnyMiddle(a, b, c) ==
    /\ a \in {"A", "B"} /\ b \in {"A", "B"} /\ c \in {"A", "B"}
    /\ a = c

\* metrics.py:68-70: the three frames are speaker frames, the first differs from
\* the second and equals the third (the window test is "or True").
IsAlternation(a, b, c) ==
    /\ a \in {"A", "B"} /\ b \in {"A", "B"} /\ c \in {"A", "B"}
    /\ a # b /\ a = c

\* metrics.rapid_alternations: the count over i in range(len(states) - 2).
RapidAlternations(states) ==
    Cardinality({i \in 1..(Len(states) - 2) :
                    IsAlternation(states[i], states[i + 1], states[i + 2])})

\* C29: on a path decoded with minimum durations d_A >= 2 and d_B >= 2,
\* rapid_alternations returns 0.
C29_NoRapidAlternation ==
    (dpc = "done" /\ GivenDurations["A"] >= 2 /\ GivenDurations["B"] >= 2)
        => RapidAlternations(path) = 0

\* Three frames favour A, B, A in turn and a speaker switch is rewarded, yet the
\* decoded path holds no alternation: it stays with one speaker on these frames.
C29_Witness ==
    /\ dpc = "done"
    /\ GivenDurations["A"] >= 2 /\ GivenDurations["B"] >= 2
    /\ dcfg.tuning # <<>>
    /\ \E i \in 1..(Len(path) - 2) :
          /\ scores[i] = StrongRow("A", 16)
          /\ scores[i + 1] = StrongRow("B", 16)
          /\ scores[i + 2] = StrongRow("A", 16)
          /\ path[i] \in {"A", "B"}
          /\ path[i + 1] = path[i] /\ path[i + 2] = path[i]
    /\ RapidAlternations(path) = 0

(***************************************************************************)
(*      run_pipeline: evidence tracks, bundle, fusion, decoding, IPUs      *)
(***************************************************************************)
\* The audio is sampled at 16 kHz; its length is counted in half hops (80 samples)
\* and its content is one of two signals of that length.
AudioContents == {"quiet", "loud"}

\* energy.SMOOTH_MS_DEFAULT and the smooth_ms default of run_pipeline, in ms.
SMOOTH_MS_DEFAULT == 80

\* The min_ipu_s default of run_pipeline, in ms.
MIN_IPU_MS == 200

\* The canonical hop in ms.
HopMs == 10

Max2(a, b) == IF a >= b THEN a ELSE b

\* energy._frame_audio: n_frames = len(samples) // hop.
EnergyFrames(half_hops) == half_hops \div 2

\* energy._smooth: np.convolve(values, kernel, mode="same") has max(len(values),
\* len(kernel)) entries, the kernel having max(1, round(smooth_ms / 10)) of them.
SmoothedLength(n, smooth_ms) == Max2(n, Max2(1, smooth_ms \div HopMs))

\* vad.py:62: n_frames = ceil(len(samples_16k) / hop_samples).
VadFrames(half_hops) == (half_hops + 1) \div 2

\* The tracks of run_pipeline.py:33-37 in the order of line 41; values names the
\* audio content the numbers were computed from.
PipelineTracks(half_hops, content) ==
    LET rms == EnergyFrames(half_hops)
        smooth == SmoothedLength(rms, SMOOTH_MS_DEFAULT)
        slope == SmoothedLength(smooth, 20)
        vad == VadFrames(half_hops)
    IN  <<[name |-> "energy_rms", n_frames |-> rms, values |-> content],
          [name |-> "energy_smooth", n_frames |-> smooth, values |-> content],
          [name |-> "energy_slope", n_frames |-> slope, values |-> content],
          [name |-> "webrtc_vad_soft", n_frames |-> vad, values |-> content],
          [name |-> "voiced_soft", n_frames |-> vad, values |-> content]>>

\* fusion.py:63-153 on a frame, in half units rounded to the nearest: without a
\* vad track p_speech = 0.5, and p_a = p_b = 0.5, log_leak = 0 as no other track
\* is given; a vad track of a loud audio has p_speech = 1, of a quiet one 0.
NeutralRow ==
    [s \in StateSet |-> CASE s = "SIL" -> -1 [] s = "A" -> -3 [] s = "B" -> -3
                          [] s = "OVL" -> -5 [] s = "LEAK" -> -7]

SpeechRow ==
    [s \in StateSet |-> CASE s = "SIL" -> -28 [] s = "A" -> -1 [] s = "B" -> -1
                          [] s = "OVL" -> -3 [] s = "LEAK" -> -20]

SilenceRow ==
    [s \in StateSet |-> CASE s = "SIL" -> 0 [] s = "A" -> -29 [] s = "B" -> -29
                          [] s = "OVL" -> -31 [] s = "LEAK" -> -6]

\* bundle.get("vad") and the score rows of fuse_bundle_to_scores.
FusedRows(tracks, T) ==
    LET vad == {i \in 1..Len(tracks) : tracks[i].name = "vad"}
    IN  [t \in 1..T |->
            IF vad = {} THEN NeutralRow
            ELSE IF tracks[CHOOSE i \in vad : TRUE].values = "loud" THEN SpeechRow
            ELSE SilenceRow]

InitRun == InitDecodeWith({[min_durations |-> <<>>, tuning |-> <<>>, initial |-> <<>>]})

\* run_pipeline.py:33-37: the five tracks are computed. An audio shorter than one
\* hop has no energy frame, and EvidenceTrack raises ValueError for T = 0.
RunPipelineCall(half_hops, content) ==
    /\ rp_pc = "idle"
    /\ rp_args' = [half_hops |-> half_hops, content |-> content]
    /\ IF EnergyFrames(half_hops) = 0
       THEN rp_tracks' = <<>> /\ rp_pc' = "raised"
       ELSE rp_tracks' = PipelineTracks(half_hops, content) /\ rp_pc' = "bundle"
    /\ UNCHANGED <<rp_rows, rp_ipus>>
    /\ UNCHANGED outsideRun

\* run_pipeline.py:39-42 with EvidenceBundle._validate_track: the bundle takes the
\* timebase of energy_rms, and add_track raises ValueError for a track of another
\* n_frames.
BuildBundle ==
    /\ rp_pc = "bundle"
    /\ rp_pc' = IF \A i \in 1..Len(rp_tracks) : rp_tracks[i].n_frames = rp_tracks[1].n_frames
                THEN "fuse" ELSE "raised"
    /\ UNCHANGED <<rp_args, rp_tracks, rp_rows, rp_ipus>>
    /\ UNCHANGED outsideRun

\* run_pipeline.py:44: scores = fusion.fuse_bundle_to_scores(bundle)
FuseBundle ==
    /\ rp_pc = "fuse"
    /\ rp_rows' = FusedRows(rp_tracks, rp_tracks[1].n_frames)
    /\ rp_pc' = "decode"
    /\ UNCHANGED <<rp_args, rp_tracks, rp_ipus>>
    /\ UNCHANGED outsideRun

\* run_pipeline.py:45: decoder.decode_with_constraints(scores), frame by frame.
DecodeScores ==
    /\ rp_pc = "decode"
    /\ \/ DecodeCall
       \/ ViterbiFirst(rp_rows[1])
       \/ Len(scores) < Len(rp_rows) /\ ViterbiStep(rp_rows[Len(scores) + 1])
       \/ Len(scores) = Len(rp_rows) /\ ViterbiReturn

\* run_pipeline.py:47-50 and 64: the IPUs of A, B, OVL and LEAK; the files written
\* by lines 52-72 are no part of the state.
ExtractAll ==
    /\ rp_pc = "decode"
    /\ dpc = "done"
    /\ LET ipus(label) == ExtractIpus([states |-> path, hop |-> HopMs, target |-> label,
                                       min_duration |-> MIN_IPU_MS])
       IN  rp_ipus' = ipus("A") \o ipus("B") \o ipus("OVL") \o ipus("LEAK")
    /\ rp_pc' = "done"
    /\ UNCHANGED <<rp_args, rp_tracks, rp_rows>>
    /\ UNCHANGED outsideRun

NextRun ==
    \/ \E half_hops \in 0..MaxAudioHalfHops, content \in AudioContents :
          RunPipelineCall(half_hops, content)
    \/ BuildBundle
    \/ FuseBundle
    \/ DecodeScores
    \/ ExtractAll

SpecRun == InitRun /\ [][NextRun]_vars

\* C30: for any audio of T >= 1 frames, whatever its content, run_pipeline decodes
\* SIL on every frame and produces no IPU.
C30_EveryAudioDecodesToSilence ==
    (rp_pc \in {"done", "raised"} /\ EnergyFrames(rp_args.half_hops) >= 1) =>
        /\ rp_pc = "done"
        /\ Len(path) = EnergyFrames(rp_args.half_hops)
        /\ \A t \in 1..Len(path) : path[t] = "SIL"
        /\ rp_ipus = <<>>

\* When run_pipeline gets as far as decoding, the path is SIL on every frame and no
\* IPU is produced, for either content.
DecodedRunsAreSilent ==
    rp_pc = "done" =>
        /\ Len(path) = EnergyFrames(rp_args.half_hops)
        /\ \A t \in 1..Len(path) : path[t] = "SIL"
        /\ rp_ipus = <<>>

====
